---- MODULE Spec2Model ----
(***************************************************************************)
(* Model of the d1-kyt migration DSL (src/src/migrate.ts).                 *)
(*                                                                         *)
(* SQL text is modelled as a sequence of string fragments: the literal     *)
(* pieces of a template literal and the values interpolated into it        *)
(* alternate, in the order the template writes them.  Text(t) concatenates *)
(* the fragments into the string the program returns.                      *)
(***************************************************************************)
EXTENDS Integers, Sequences, FiniteSets, TLC

VARIABLES
    pc,       \* "ready": the caller is about to call; "returned": a call returned
    call,     \* the arguments of the call that returned last
    result,   \* the value that call returned
    defaults, \* the module-level object defaultTableOptions
    heap,     \* the descriptor objects (def) allocated by createColumnDef
    handles,  \* the ColumnDef values the caller holds, with the calls made on each
    schema,   \* a database the statements are run on: its tables and triggers,
              \* and what the migrations that declared its tables passed
    files,    \* the migration directories: the file names in d1-kyt/migrations
              \* (src) and in the output directory (out), and the writes made
    d1        \* the calls made on a D1Database and its prepared statements

vars == <<pc, call, result, defaults, heap, handles, schema, files, d1>>

(***************************************************************************)
(* Bounds of the model.                                                    *)
(***************************************************************************)
\* most user columns a defineTable callback declares
MaxCols == 2
\* most columns listed in a createIndex call
MaxIndexCols == 2
\* most setters chained on the descriptor of an addColumn callback
MaxChain == 2
\* most descriptors a caller of the column builder holds at once
MaxDescriptors == 2
\* most setter calls that caller makes in all
MaxSetterCalls == 4
\* most file names in the list given to generateSequentialPrefix
MaxFiles == 2
\* most queries in the list given to queryBatch
MaxQueries == 2
\* the most commands (migrate:create, migrate:build) run in one behaviour
MaxCommands == 2
\* the most seconds the clock advances in one behaviour
MaxTicks == 1

(***************************************************************************)
(* JavaScript values.                                                      *)
(***************************************************************************)
\* null, and a present string value v (defaultValue: string | null)
Null == <<>>
Some(v) == <<v>>

\* an object without own properties: {} or an omitted options argument
EmptyObject == [k \in {} |-> TRUE]

\* { ...a, ...b }: b's own properties override a's
Spread(a, b) ==
    [k \in (DOMAIN a) \cup (DOMAIN b) |-> IF k \in DOMAIN b THEN b[k] ELSE a[k]]

\* Truthiness of a value of type string | null: null and '' are falsy
Truthy(v) == v # Null /\ v # Some("")

\* Array.prototype.join on an array of fragment sequences
RECURSIVE Join(_, _)
Join(parts, sep) ==
    IF Len(parts) = 0 THEN <<>>
    ELSE IF Len(parts) = 1 THEN parts[1]
    ELSE parts[1] \o <<sep>> \o Join(Tail(parts), sep)

\* the string a fragment sequence stands for
RECURSIVE Text(_)
Text(t) == IF Len(t) = 0 THEN "" ELSE Head(t) \o Text(Tail(t))

\* Property names that are canonical array indices, with their numeric value,
\* among the names the model draws from.
ArrayIndexValue == ("2" :> 2) @@ ("10" :> 10)
IsArrayIndex(k) == k \in DOMAIN ArrayIndexValue

\* ascending numeric order of a set of array-index names
RECURSIVE SortIndexKeys(_)
SortIndexKeys(ks) ==
    IF ks = {} THEN <<>>
    ELSE LET m == CHOOSE k \in ks : \A j \in ks : ArrayIndexValue[k] <= ArrayIndexValue[j]
         IN  <<m>> \o SortIndexKeys(ks \ {m})

(***************************************************************************)
(* Column definitions (createColumnDef, columnBuilder).                    *)
(***************************************************************************)
SqliteType == {"TEXT", "INTEGER", "REAL", "BLOB"}

createColumnDef(type) ==
    [type |-> type, isNotNull |-> FALSE, defaultValue |-> Null]

\* mutant: the flag is flipped at every call
notNull_Toggle(def) == [def EXCEPT !.isNotNull = ~def.isNotNull]

notNull(def) == [def EXCEPT !.isNotNull = TRUE]

\* mutant: a default once set is kept
default_KeepFirst(def, value) ==
    IF def.defaultValue = <<>> THEN [def EXCEPT !.defaultValue = <<value>>] ELSE def

default(def, value) == [def EXCEPT !.defaultValue = Some(value)]

\* the factory a columnBuilder method calls
columnBuilder ==
    [text |-> createColumnDef("TEXT"), integer |-> createColumnDef("INTEGER"),
     real |-> createColumnDef("REAL"), blob |-> createColumnDef("BLOB")]

\* A chained expression col.<factory>().<setter>()...: the setters applied
\* left to right to the descriptor the factory returned.
RECURSIVE ApplyChain(_, _)
ApplyChain(def, chain) ==
    IF Len(chain) = 0 THEN def
    ELSE ApplyChain(IF Head(chain)[1] = "notNull" THEN notNull(def)
                    ELSE default(def, Head(chain)[2]),
                    Tail(chain))

(***************************************************************************)
(* Objects: the record a defineTable callback returns.  An object keeps    *)
(* the order its properties were inserted in (order) and their values.     *)
(***************************************************************************)
\* The callback fn(columnBuilder): an object literal whose properties are the
\* declarations of fn, inserted in source order.
Callback(fn) ==
    [order |-> [i \in 1..Len(fn) |-> fn[i].name],
     value |-> [k \in {fn[i].name : i \in 1..Len(fn)} |->
                  LET d == CHOOSE d \in {fn[i] : i \in 1..Len(fn)} : d.name = k
                  IN  ApplyChain(columnBuilder[d.factory], d.chain)]]

\* Object.keys: array-index names first, in ascending numeric order, then the
\* other names in insertion order (OrdinaryOwnPropertyKeys).
ObjectKeys(obj) ==
    SortIndexKeys({obj.order[i] : i \in 1..Len(obj.order)} \cap DOMAIN ArrayIndexValue)
    \o SelectSeq(obj.order, LAMBDA k : ~IsArrayIndex(k))

\* Object.entries: the [key, value] pairs in Object.keys order
ObjectEntries(obj) ==
    LET keys == ObjectKeys(obj)
    IN  [i \in 1..Len(keys) |-> <<keys[i], obj.value[keys[i]]>>]

(***************************************************************************)
(* defineTable.                                                            *)
(***************************************************************************)
defaultTableOptions ==
    [id |-> TRUE, createdAt |-> TRUE, updatedAt |-> TRUE,
     idColumn |-> "id", createdAtColumn |-> "createdAt",
     updatedAtColumn |-> "updatedAt"]

\* mutant: the id line is pushed whatever the option says
IdColumnDefs_Always(opts) ==
    << <<"  \"", opts.idColumn, "\" INTEGER PRIMARY KEY AUTOINCREMENT">> >>

\* Auto id column
IdColumnDefs(opts) ==
    IF opts.id
    THEN << <<"  \"", opts.idColumn, "\" INTEGER PRIMARY KEY AUTOINCREMENT">> >>
    ELSE <<>>

\* mutant: the default is written before NOT NULL
UserColumnDef_DefaultFirst(colName, colDef) ==
    <<"  \"", colName, "\" ", colDef.type>>
    \o (IF colDef.defaultValue # <<>>
        THEN <<" DEFAULT ", colDef.defaultValue[1]>> ELSE <<>>)
    \o (IF colDef.isNotNull THEN <<" NOT NULL">> ELSE <<>>)

\* the line of one user-defined column
UserColumnDef(colName, colDef) ==
    <<"  \"", colName, "\" ", colDef.type>>
    \o (IF colDef.isNotNull THEN <<" NOT NULL">> ELSE <<>>)
    \o (IF colDef.defaultValue # Null
        THEN <<" DEFAULT ", colDef.defaultValue[1]>> ELSE <<>>)

\* User-defined columns
UserColumnDefs(columns) ==
    LET entries == ObjectEntries(columns)
    IN  [i \in 1..Len(entries) |-> UserColumnDef(entries[i][1], entries[i][2])]

\* mutant: the updated-timestamp line is pushed before the created one
TimestampColumnDefs_UpdatedFirst(opts) ==
    (IF opts.updatedAt
     THEN << <<"  \"", opts.updatedAtColumn,
               "\" TEXT NOT NULL DEFAULT (datetime('now'))">> >>
     ELSE <<>>)
    \o
    (IF opts.createdAt
     THEN << <<"  \"", opts.createdAtColumn,
               "\" TEXT NOT NULL DEFAULT (datetime('now'))">> >>
     ELSE <<>>)

\* Auto timestamp columns
TimestampColumnDefs(opts) ==
    (IF opts.createdAt
     THEN << <<"  \"", opts.createdAtColumn,
               "\" TEXT NOT NULL DEFAULT (datetime('now'))">> >>
     ELSE <<>>)
    \o
    (IF opts.updatedAt
     THEN << <<"  \"", opts.updatedAtColumn,
               "\" TEXT NOT NULL DEFAULT (datetime('now'))">> >>
     ELSE <<>>)

\* mutant: a line whose column name was already written is left out
CreateTableSql_Distinct(name, columnDefs) ==
    <<"CREATE TABLE \"", name, "\" (\n">>
    \o Join(SelectSeq(columnDefs,
                      LAMBDA d : d = columnDefs[CHOOSE i \in 1..Len(columnDefs) :
                                                   columnDefs[i][2] = d[2]
                                                   /\ \A j \in 1..(i-1) : columnDefs[j][2] # d[2]]),
            ",\n")
    \o <<"\n);">>

CreateTableSql(name, columnDefs) ==
    <<"CREATE TABLE \"", name, "\" (\n">> \o Join(columnDefs, ",\n") \o <<"\n);">>

\* mutant: the last key instead of the first
findPrimaryKeyColumn_Last(columns) ==
    LET keys == ObjectKeys(columns)
    IN  IF Len(keys) > 0 THEN Some(keys[Len(keys)]) ELSE Null

\* mutant: falls back to the default key name when there is no column
findPrimaryKeyColumn_FallbackId(columns) ==
    LET keys == ObjectKeys(columns)
    IN  IF Len(keys) > 0 THEN Some(keys[1]) ELSE Some("id")

\* Find a column that could serve as primary key (first column if no id).
findPrimaryKeyColumn(columns) ==
    LET keys == ObjectKeys(columns)
    IN  IF Len(keys) > 0 THEN Some(keys[1]) ELSE Null

\* mutant: the id column name is taken whether or not the id column is enabled
PkColumn_IgnoresIdFlag(columns, opts) == Some(opts.idColumn)

\* Determine primary key column for WHERE clause
PkColumn(columns, opts) ==
    IF opts.id THEN Some(opts.idColumn) ELSE findPrimaryKeyColumn(columns)

\* mutant: the trigger is named and sets the column by the default name
CreateTriggerSql_DefaultName(name, opts, pkColumn) ==
    <<"CREATE TRIGGER \"", name, "_", "updatedAt",
      "_trg\"\nAFTER UPDATE ON \"", name,
      "\"\nFOR EACH ROW\nBEGIN\n  UPDATE \"", name, "\" SET \"",
      "updatedAt", "\" = datetime('now') WHERE \"", pkColumn,
      "\" = NEW.\"", pkColumn, "\";\nEND;">>

CreateTriggerSql(name, opts, pkColumn) ==
    <<"CREATE TRIGGER \"", name, "_", opts.updatedAtColumn,
      "_trg\"\nAFTER UPDATE ON \"", name,
      "\"\nFOR EACH ROW\nBEGIN\n  UPDATE \"", name, "\" SET \"",
      opts.updatedAtColumn, "\" = datetime('now') WHERE \"", pkColumn,
      "\" = NEW.\"", pkColumn, "\";\nEND;">>

\* mutant: the trigger is created whether or not updatedAt is enabled
TriggerStatements_Always(name, columns, opts) ==
    LET pkColumn == IF opts.id THEN Some(opts.idColumn)
                    ELSE IF Len(ObjectKeys(columns)) > 0
                         THEN Some(ObjectKeys(columns)[1]) ELSE Null
    IN  IF Truthy(pkColumn)
        THEN << <<"CREATE TRIGGER \"", name, "_", opts.updatedAtColumn,
                  "_trg\"\nAFTER UPDATE ON \"", name,
                  "\"\nFOR EACH ROW\nBEGIN\n  UPDATE \"", name, "\" SET \"",
                  opts.updatedAtColumn, "\" = datetime('now') WHERE \"",
                  pkColumn[1], "\" = NEW.\"", pkColumn[1], "\";\nEND;">> >>
        ELSE <<>>

\* Only create trigger if updatedAt is enabled
TriggerStatements(name, columns, opts) ==
    IF opts.updatedAt
    THEN LET pkColumn == PkColumn(columns, opts)
         IN  IF Truthy(pkColumn)
             THEN <<CreateTriggerSql(name, opts, pkColumn[1])>>
             ELSE <<>>
    ELSE <<>>

\* mutant: the options are assigned into the module-level object
DefaultsAfterMerge_Assign(moduleDefaults, options) ==
    Spread(moduleDefaults, options)

\* { ...defaultTableOptions, ...options } builds a new object: the module-level
\* object it reads is left as it was
DefaultsAfterMerge(moduleDefaults, options) == moduleDefaults

\* defineTable run with the module-level defaults as they are at the call
defineTableWith(moduleDefaults, name, fn, options) ==
    LET opts == Spread(moduleDefaults, options)
        columns == Callback(fn)
        columnDefs == IdColumnDefs(opts) \o UserColumnDefs(columns)
                      \o TimestampColumnDefs(opts)
        sqlStatements == <<CreateTableSql(name, columnDefs)>>
                         \o TriggerStatements(name, columns, opts)
    IN  [_name |-> name, sql |-> sqlStatements]

\* defineTable of a freshly loaded module
defineTable(name, fn, options) ==
    defineTableWith(defaultTableOptions, name, fn, options)

(***************************************************************************)
(* createIndex.                                                            *)
(***************************************************************************)
\* options?.key: undefined (Null) when the property is absent
OptionalProp(options, key) ==
    IF key \in DOMAIN options THEN Some(options[key]) ELSE Null

\* a ?? b
NullishCoalesce(a, b) == IF a = Null THEN b ELSE a[1]

\* mutant: the long suffix for unique indexes
IndexSuffix_Unique(unique) == IF unique THEN "unique" ELSE "idx"

IndexSuffix(unique) == IF unique THEN "uq" ELSE "idx"

\* mutant: the suffix is appended to an explicit name too
IndexName_Suffixed(tableName, columns, options, suffix) ==
    IF "name" \in DOMAIN options
    THEN <<options.name, "_", suffix>>
    ELSE <<tableName, "_">>
         \o Join([i \in 1..Len(columns) |-> <<columns[i]>>], "_")
         \o <<"_", suffix>>

\* options?.name ?? `${tableName}_${columns.join('_')}_${suffix}`
IndexName(tableName, columns, options, suffix) ==
    NullishCoalesce(
        IF OptionalProp(options, "name") = Null THEN Null
        ELSE Some(<<options.name>>),
        <<tableName, "_">>
        \o Join([i \in 1..Len(columns) |-> <<columns[i]>>], "_")
        \o <<"_", suffix>>)

\* mutant: the columns are joined without the space
IndexColumnList_NoSpace(columns) ==
    Join([i \in 1..Len(columns) |-> <<"\"", columns[i], "\"">>], ",")

\* columns.map((c) => `"${c}"`).join(', ')
IndexColumnList(columns) ==
    Join([i \in 1..Len(columns) |-> <<"\"", columns[i], "\"">>], ", ")

UniqueKeyword(unique) == IF unique THEN "UNIQUE " ELSE ""

createIndex(table, columns, options) ==
    LET tableName == table._name
        unique == NullishCoalesce(OptionalProp(options, "unique"), FALSE)
        suffix == IndexSuffix(unique)
        indexName == IndexName(tableName, columns, options, suffix)
        columnList == IndexColumnList(columns)
        uniqueKeyword == UniqueKeyword(unique)
    IN  <<"CREATE ", uniqueKeyword, "INDEX \"">> \o indexName
        \o <<"\" ON \"", tableName, "\"(">> \o columnList \o <<");">>

\* useTable / createUseTable: a table reference carries the name only
useTable(name) == [_name |-> name]

\* createUseTable<DB>()(name): the function createUseTable returns, applied
createUseTable(name) == [_name |-> name]

(***************************************************************************)
(* dropIndex, addColumn, dropTable.                                        *)
(***************************************************************************)
\* mutant: the index name is written bare
dropIndex_Unquoted(name) == <<"DROP INDEX ", name, ";">>

dropIndex(name) == <<"DROP INDEX \"", name, "\";">>

\* the clauses appended after the type
ColumnClauses(def) ==
    (IF def.isNotNull THEN <<" NOT NULL">> ELSE <<>>)
    \o (IF def.defaultValue # Null
        THEN <<" DEFAULT ", def.defaultValue[1]>> ELSE <<>>)

\* mutant: the clauses are appended in the order the setters were chained
addColumn_ChainOrder(table, column, fn) ==
    LET colDef == ApplyChain(columnBuilder[fn.factory], fn.chain)
        nn == IF colDef.isNotNull THEN <<" NOT NULL">> ELSE <<>>
        dv == IF colDef.defaultValue # Null
              THEN <<" DEFAULT ", colDef.defaultValue[1]>> ELSE <<>>
    IN  <<"ALTER TABLE \"", table._name, "\" ADD COLUMN \"", column, "\" ",
          colDef.type>>
        \o (IF Len(fn.chain) > 0 /\ Head(fn.chain)[1] = "default"
            THEN dv \o nn ELSE nn \o dv)
        \o <<";">>

\* fn is col => col.<factory>()<chain>
addColumn(table, column, fn) ==
    LET colDef == ApplyChain(columnBuilder[fn.factory], fn.chain)
    IN  <<"ALTER TABLE \"", table._name, "\" ADD COLUMN \"", column, "\" ",
          colDef.type>>
        \o ColumnClauses(colDef)
        \o <<";">>

\* mutant: the trigger is dropped by its former name, without the suffix
DropTriggerSql_NoSuffix(name, updatedAtColumn) ==
    <<"DROP TRIGGER IF EXISTS \"", name, "_", updatedAtColumn, "\";">>

DropTriggerSql(name, updatedAtColumn) ==
    <<"DROP TRIGGER IF EXISTS \"", name, "_", updatedAtColumn, "_trg\";">>

\* mutant: the statements are returned trigger first
DropStatements_TriggerFirst(name, updatedAtColumn) ==
    << DropTriggerSql(name, updatedAtColumn), <<"DROP TABLE \"", name, "\";">> >>

DropStatements(name, updatedAtColumn) ==
    << <<"DROP TABLE \"", name, "\";">>, DropTriggerSql(name, updatedAtColumn) >>

\* mutant: the trigger is dropped only for a declaration that created one
dropTable_FromDeclaration(table, updatedAtColumn) ==
    LET name == table._name
        column == IF updatedAtColumn = Null THEN "updatedAt"
                  ELSE updatedAtColumn[1]
    IN  IF "sql" \in DOMAIN table /\ Len(table.sql) = 1
        THEN << <<"DROP TABLE \"", name, "\";">> >>
        ELSE DropStatements(name, column)

\* updatedAtColumn: Null when the argument is omitted (= 'updatedAt')
dropTable(table, updatedAtColumn) ==
    LET name == table._name
        column == IF updatedAtColumn = Null THEN "updatedAt"
                  ELSE updatedAtColumn[1]
    IN  DropStatements(name, column)

(***************************************************************************)
(* Migration file names and their prefixes (naming.ts).  A file name and a *)
(* prefix are sequences of characters.                                     *)
(***************************************************************************)
DigitValue ==
    ("0" :> 0) @@ ("1" :> 1) @@ ("2" :> 2) @@ ("3" :> 3) @@ ("4" :> 4)
    @@ ("5" :> 5) @@ ("6" :> 6) @@ ("7" :> 7) @@ ("8" :> 8) @@ ("9" :> 9)

\* \d
IsDigit(c) == c \in DOMAIN DigitValue

\* s ends with the characters of suffix
EndsWith(s, suffix) ==
    /\ Len(s) >= Len(suffix)
    /\ SubSeq(s, Len(s) - Len(suffix) + 1, Len(s)) = suffix

\* f.match(/^(\d{4})_.*\.(ts|sql)$/): the captured digits, Null when f does
\* not match
MatchSeqPattern(f) ==
    IF /\ Len(f) >= 5
       /\ \A i \in 1..4 : IsDigit(f[i])
       /\ f[5] = "_"
       /\ \/ EndsWith(SubSeq(f, 6, Len(f)), <<".", "t", "s">>)
          \/ EndsWith(SubSeq(f, 6, Len(f)), <<".", "s", "q", "l">>)
    THEN Some(SubSeq(f, 1, 4))
    ELSE Null

\* parseInt(digits, 10)
RECURSIVE parseInt(_)
parseInt(digits) ==
    IF Len(digits) = 0 THEN 0
    ELSE 10 * parseInt(SubSeq(digits, 1, Len(digits) - 1))
         + DigitValue[digits[Len(digits)]]

\* String(n) for a natural number n
RECURSIVE String(_)
String(n) ==
    LET d == CHOOSE c \in DOMAIN DigitValue : DigitValue[c] = n % 10
    IN  IF n < 10 THEN <<d>> ELSE Append(String(n \div 10), d)

\* s.padStart(targetLength, padChar)
RECURSIVE padStart(_, _, _)
padStart(s, targetLength, padChar) ==
    IF Len(s) >= targetLength THEN s
    ELSE padStart(<<padChar>> \o s, targetLength, padChar)

\* Math.max(...numbers) of a non-empty list
MathMax(numbers) ==
    CHOOSE n \in {numbers[i] : i \in 1..Len(numbers)} :
        \A i \in 1..Len(numbers) : numbers[i] <= n

\* .map(f => match ? parseInt(match[1], 10) : NaN).filter(n => !isNaN(n))
SeqNumbers(existingFiles) ==
    LET matching == SelectSeq(existingFiles, LAMBDA f : MatchSeqPattern(f) # Null)
    IN  [i \in 1..Len(matching) |-> parseInt(MatchSeqPattern(matching[i])[1])]

\* mutant: the next number is the count of the numbered files plus one
generateSequentialPrefix_Count(existingFiles) ==
    padStart(String(Len(SeqNumbers(existingFiles)) + 1), 4, "0")

generateSequentialPrefix(existingFiles) ==
    LET numbers == SeqNumbers(existingFiles)
        nextNum == IF Len(numbers) > 0 THEN MathMax(numbers) + 1 ELSE 1
    IN  padStart(String(nextNum), 4, "0")

\* pad(n): String(n).padStart(2, '0')
pad(n) == padStart(String(n), 2, "0")

\* date: the UTC fields of a Date (month as getUTCMonth gives it, from 0)
generateTimestampPrefix(date) ==
    String(date.year) \o pad(date.month + 1) \o pad(date.date)
    \o pad(date.hours) \o pad(date.minutes) \o pad(date.seconds)

generateMigrationPrefix(strategy, existingFiles, date) ==
    IF strategy = "timestamp" THEN generateTimestampPrefix(date)
    ELSE generateSequentialPrefix(existingFiles)

\* The file names a directory listing is made of
FileNames ==
    { <<"0", "0", "0", "1", "_", "f", "i", "r", "s", "t", ".", "t", "s">>,
      <<"0", "0", "0", "2", "_", "s", "e", "c", "o", "n", "d", ".", "s", "q", "l">>,
      <<"0", "0", "0", "5", "_", "f", "i", "f", "t", "h", ".", "t", "s">>,
      <<"9", "9", "9", "9", "_", "l", "a", "s", "t", ".", "t", "s">>,
      <<"0", "0", "0", "3", "_", ".", "t", "s">>,
      <<"r", "e", "a", "d", "m", "e", ".", "m", "d">>,
      <<"0", "0", "1", "_", "s", "h", "o", "r", "t", ".", "t", "s">>,
      <<"0", "0", "0", "1", "0", "_", "l", "o", "n", "g", ".", "t", "s">>,
      <<"0", "0", "0", "7", "_", "n", "o", "t", "e", "s", ".", "t", "x", "t">>,
      <<"x", "0", "0", "0", "8", "_", "a", ".", "t", "s">> }

\* Lists of at most MaxFiles file names
FileLists == UNION { [1..n -> FileNames] : n \in 0..MaxFiles }

(***************************************************************************)
(* The inputs the calls are made with.                                     *)
(***************************************************************************)
TableNames == {"Place", "user"}

\* Column declarations of a callback: name: col.<factory>()<chain>
ColumnDecls ==
    { [name |-> "name",   factory |-> "text",    chain |-> << <<"notNull">> >>],
      [name |-> "cityId", factory |-> "integer", chain |-> << <<"notNull">> >>],
      [name |-> "uuid",   factory |-> "text",    chain |-> << <<"notNull">> >>],
      [name |-> "status", factory |-> "text",
       chain |-> << <<"notNull">>, <<"default", "'draft'">> >>],
      [name |-> "10",     factory |-> "real",    chain |-> << <<"default", "0">> >>],
      [name |-> "2",      factory |-> "blob",    chain |-> <<>>],
      [name |-> "",       factory |-> "text",    chain |-> <<>>] }

\* Callbacks: object literals of at most MaxCols properties with distinct names
Callbacks ==
    UNION { { fn \in [1..n -> ColumnDecls] :
                \A i, j \in 1..n : i # j => fn[i].name # fn[j].name }
            : n \in 0..MaxCols }

\* Options objects passed to defineTable.  primaryKey and primaryKeyColumn are
\* the option names the test suite passes.
TableOptionsPool ==
    { Spread(Spread(Spread(Spread(Spread(Spread(a, b), c), d), e), f), g) :
        a \in {EmptyObject, [id |-> FALSE], [id |-> TRUE]},
        b \in {EmptyObject, [createdAt |-> FALSE]},
        c \in {EmptyObject, [updatedAt |-> FALSE]},
        d \in {EmptyObject, [idColumn |-> "place_id"], [idColumn |-> ""]},
        e \in {EmptyObject, [createdAtColumn |-> "created_at"]},
        f \in {EmptyObject, [updatedAtColumn |-> "updated_at"]},
        g \in {EmptyObject, [primaryKey |-> FALSE],
               [primaryKeyColumn |-> "place_id"]} }

IndexColumnNames == {"cityId", "status", "name"}

\* Column lists of a createIndex call: non-empty, at most MaxIndexCols long
IndexColumnLists == UNION { [1..n -> IndexColumnNames] : n \in 1..MaxIndexCols }

\* Options objects passed to createIndex (EmptyObject: omitted or {})
IndexOptionsPool ==
    { Spread(a, b) :
        a \in {EmptyObject, [unique |-> TRUE], [unique |-> FALSE]},
        b \in {EmptyObject, [name |-> "idx_place_city"], [name |-> ""]} }

\* The setter calls a chain is made of
Setters == {<<"notNull">>, <<"default", "0">>, <<"default", "'N/A'">>}

\* Chains of at most MaxChain setter calls
SetterChains == UNION { [1..n -> Setters] : n \in 0..MaxChain }

\* Callbacks of addColumn: col => col.<factory>()<chain>
AddColumnFns ==
    { [factory |-> f, chain |-> c] : f \in DOMAIN columnBuilder, c \in SetterChains }

NewColumnNames == {"rating", "featured"}

\* The second argument of dropTable: omitted (Null) or a column name
UpdatedAtArgs == {Null, Some("updated_at"), Some("modifiedAt")}

IndexNames == {"Place_cityId_idx", "idx_place_city"}

(***************************************************************************)
(* The state machine: a caller that makes one call after another.          *)
(***************************************************************************)
NoCall == [op |-> "none"]

EmptySchema == [tables |-> {}, triggers |-> {}, declared |-> EmptyObject]

\* a D1Database on which nothing was called, with no promise settled
NoD1Calls == [calls |-> <<>>, settled |-> Null]

\* empty directories, no naming strategy configured, nothing written
NoFiles ==
    [src |-> {}, out |-> {}, content |-> <<>>, namingStrategy |-> Null,
     now |-> 0, written |-> <<>>, last |-> "none", prev |-> "none",
     commands |-> 0]

Init ==
    /\ pc = "ready"
    /\ call = NoCall
    /\ result = NoCall
    /\ defaults = defaultTableOptions
    /\ heap = <<>>
    /\ handles = <<>>
    /\ schema = EmptySchema
    /\ files = NoFiles
    /\ d1 = NoD1Calls

DefineTable ==
    /\ pc = "ready"
    /\ \E name \in TableNames, fn \in Callbacks, options \in TableOptionsPool :
         /\ call' = [op |-> "defineTable", name |-> name, fn |-> fn,
                     options |-> options]
         /\ result' = defineTableWith(defaults, name, fn, options)
         /\ defaults' = DefaultsAfterMerge(defaults, options)
    /\ pc' = "returned"
    /\ UNCHANGED <<heap, handles, schema, files, d1>>

CreateIndex ==
    /\ pc = "ready"
    /\ \E name \in TableNames, columns \in IndexColumnLists,
          options \in IndexOptionsPool :
         /\ call' = [op |-> "createIndex", table |-> useTable(name),
                     columns |-> columns, options |-> options]
         /\ result' = createIndex(useTable(name), columns, options)
    /\ pc' = "returned"
    /\ UNCHANGED <<defaults, heap, handles, schema, files, d1>>

DropIndex ==
    /\ pc = "ready"
    /\ \E name \in IndexNames :
         /\ call' = [op |-> "dropIndex", name |-> name]
         /\ result' = dropIndex(name)
    /\ pc' = "returned"
    /\ UNCHANGED <<defaults, heap, handles, schema, files, d1>>

AddColumn ==
    /\ pc = "ready"
    /\ \E name \in TableNames, column \in NewColumnNames, fn \in AddColumnFns :
         /\ call' = [op |-> "addColumn", table |-> useTable(name),
                     column |-> column, fn |-> fn]
         /\ result' = addColumn(useTable(name), column, fn)
    /\ pc' = "returned"
    /\ UNCHANGED <<defaults, heap, handles, schema, files, d1>>

DropTable ==
    /\ pc = "ready"
    /\ \E name \in TableNames, updatedAtColumn \in UpdatedAtArgs :
         /\ call' = [op |-> "dropTable", table |-> useTable(name),
                     updatedAtColumn |-> updatedAtColumn]
         /\ result' = dropTable(useTable(name), updatedAtColumn)
    /\ pc' = "returned"
    /\ UNCHANGED <<defaults, heap, handles, schema, files, d1>>

\* the caller drops the returned value and goes on to its next call
Return ==
    /\ pc = "returned"
    /\ pc' = "ready"
    /\ call' = NoCall
    /\ result' = NoCall
    /\ UNCHANGED <<defaults, heap, handles, schema, files, d1>>

Next ==
    DefineTable \/ CreateIndex \/ DropIndex \/ AddColumn \/ DropTable \/ Return

Spec == Init /\ [][Next]_vars

(***************************************************************************)
(* The column builder used step by step: a caller that takes descriptors   *)
(* from the factories and calls their setters one call at a time.  The     *)
(* object def of a descriptor lives in heap; a handle is the ColumnDef the *)
(* caller holds, with the factory it came from and the calls made on it.   *)
(***************************************************************************)
\* mutant: one def object shared by every descriptor
Alloc_Shared(h) == 1

\* const def = {...}: a new object at every call of createColumnDef
Alloc(h) == Len(h) + 1

\* the heap with object d at address a
Store(h, a, d) ==
    [i \in 1..(IF a > Len(h) THEN a ELSE Len(h)) |-> IF i = a THEN d ELSE h[i]]

DefaultValues == {"0", "'N/A'"}

\* setter calls made so far on all handles
SetterCallsMade ==
    LET RECURSIVE Sum(_)
        Sum(i) == IF i = 0 THEN 0 ELSE Len(handles[i].calls) + Sum(i - 1)
    IN  Sum(Len(handles))

\* col.<factory>()
Factory ==
    /\ Len(handles) < MaxDescriptors
    /\ \E f \in DOMAIN columnBuilder :
         LET a == Alloc(heap)
         IN  /\ heap' = Store(heap, a, columnBuilder[f])
             /\ handles' = Append(handles, [ref |-> a, factory |-> f, calls |-> <<>>])
    /\ UNCHANGED <<pc, call, result, defaults, schema, files, d1>>

\* <descriptor>.notNull()
NotNullCall ==
    /\ SetterCallsMade < MaxSetterCalls
    /\ \E h \in DOMAIN handles :
         /\ heap' = [heap EXCEPT ![handles[h].ref] = notNull(@)]
         /\ handles' = [handles EXCEPT ![h].calls = Append(@, <<"notNull">>)]
    /\ UNCHANGED <<pc, call, result, defaults, schema, files, d1>>

\* <descriptor>.default(value)
DefaultCall ==
    /\ SetterCallsMade < MaxSetterCalls
    /\ \E h \in DOMAIN handles, value \in DefaultValues :
         /\ heap' = [heap EXCEPT ![handles[h].ref] = default(@, value)]
         /\ handles' = [handles EXCEPT ![h].calls = Append(@, <<"default", value>>)]
    /\ UNCHANGED <<pc, call, result, defaults, schema, files, d1>>

BuilderNext == Factory \/ NotNullCall \/ DefaultCall

BuilderSpec == Init /\ [][BuilderNext]_vars

(***************************************************************************)
(* Migrations: the statements defineTable and dropTable return are run, in *)
(* order, on a database.  A DROP TABLE takes the table only: a trigger     *)
(* goes by the DROP TRIGGER statement that names it.                       *)
(***************************************************************************)
\* the end of an identifier inside the literal that closes its quotes
ClosingTail ==
    ("_trg\"\nAFTER UPDATE ON \"" :> "_trg") @@ ("_trg\";" :> "_trg")
    @@ ("\"\nAFTER UPDATE ON \"" :> "") @@ ("\";" :> "")

\* the trigger name a CREATE TRIGGER or DROP TRIGGER statement writes between
\* its first pair of quotes
StatementTriggerName(stmt) ==
    Text(SubSeq(stmt, 2, 4)) \o ClosingTail[stmt[5]]

\* the database after one statement
ExecStatement(db, stmt) ==
    IF stmt[1] = "CREATE TABLE \""
    THEN [db EXCEPT !.tables = @ \cup {stmt[2]}]
    ELSE IF stmt[1] = "CREATE TRIGGER \""
    THEN [db EXCEPT !.triggers =
              @ \cup {[name |-> StatementTriggerName(stmt), table |-> stmt[6]]}]
    ELSE IF stmt[1] = "DROP TABLE \""
    THEN [db EXCEPT !.tables = @ \ {stmt[2]}]
    ELSE IF stmt[1] = "DROP TRIGGER IF EXISTS \""
    THEN [db EXCEPT !.triggers =
              {t \in @ : t.name # StatementTriggerName(stmt)}]
    ELSE db

\* the database after the statements of a migration, in order
RECURSIVE ExecAll(_, _)
ExecAll(db, stmts) ==
    IF Len(stmts) = 0 THEN db
    ELSE ExecAll(ExecStatement(db, Head(stmts)), Tail(stmts))

\* the trigger a list of statements creates, Null when it creates none
CreatedTrigger(stmts) ==
    IF \E i \in 1..Len(stmts) : stmts[i][1] = "CREATE TRIGGER \""
    THEN Some(StatementTriggerName(
             stmts[CHOOSE i \in 1..Len(stmts) : stmts[i][1] = "CREATE TRIGGER \""]))
    ELSE Null

MigrationCallbacks ==
    { <<>>, << [name |-> "name", factory |-> "text", chain |-> << <<"notNull">> >>] >> }

MigrationOptionsPool ==
    { Spread(Spread(a, b), c) :
        a \in {EmptyObject, [id |-> FALSE]},
        b \in {EmptyObject, [updatedAt |-> FALSE]},
        c \in {EmptyObject, [updatedAtColumn |-> "updated_at"],
               [updatedAtColumn |-> ""]} }

\* an up migration: a table that is not there is defined and created
MigrateUp ==
    /\ \E name \in TableNames \ schema.tables, fn \in MigrationCallbacks,
          options \in MigrationOptionsPool :
         LET table == defineTableWith(defaults, name, fn, options)
             db == ExecAll(schema, table.sql)
         IN  /\ call' = [op |-> "defineTable", name |-> name, fn |-> fn,
                         options |-> options]
             /\ result' = table
             /\ defaults' = DefaultsAfterMerge(defaults, options)
             /\ schema' =
                   [db EXCEPT !.declared =
                       (name :> [updatedAtColumn |-> OptionalProp(options, "updatedAtColumn"),
                                 trigger |-> CreatedTrigger(table.sql)])
                       @@ @]
    /\ UNCHANGED <<pc, heap, handles, files, d1>>

\* a down migration: a table that is there is dropped, with the updatedAt
\* column name it was declared with
MigrateDown ==
    /\ \E name \in schema.tables :
         LET updatedAtColumn == schema.declared[name].updatedAtColumn
             stmts == dropTable(useTable(name), updatedAtColumn)
             db == ExecAll(schema, stmts)
         IN  /\ call' = [op |-> "dropTable", table |-> useTable(name),
                         updatedAtColumn |-> updatedAtColumn,
                         created |-> schema.declared[name].trigger]
             /\ result' = stmts
             /\ schema' =
                   [db EXCEPT !.declared =
                       [t \in (DOMAIN @) \ {name} |-> @[t]]]
    /\ UNCHANGED <<pc, defaults, heap, handles, files, d1>>

MigrationNext == MigrateUp \/ MigrateDown

MigrationSpec == Init /\ [][MigrationNext]_vars

(***************************************************************************)
(* Independent call sites: each site makes its calls in its own order, the *)
(* calls of the sites interleave in any way (a call runs to its return     *)
(* before the next starts), and each site keeps its last call and result. *)
(***************************************************************************)
Sites == {"A", "B"}

SiteAddColumnFns ==
    { [factory |-> "text", chain |-> <<>>],
      [factory |-> "integer", chain |-> << <<"notNull">>, <<"default", "0">> >>] }

SiteIndexOptions == {EmptyObject, [unique |-> TRUE]}

InterleavedInit ==
    /\ pc = "ready"
    /\ call = [s \in Sites |-> NoCall]
    /\ result = [s \in Sites |-> NoCall]
    /\ defaults = defaultTableOptions
    /\ heap = <<>>
    /\ handles = <<>>
    /\ schema = EmptySchema
    /\ files = NoFiles
    /\ d1 = NoD1Calls

SiteDefineTable ==
    /\ \E site \in Sites, name \in TableNames, fn \in MigrationCallbacks,
          options \in MigrationOptionsPool :
         /\ call' = [call EXCEPT ![site] =
                         [op |-> "defineTable", name |-> name, fn |-> fn,
                          options |-> options]]
         /\ result' = [result EXCEPT ![site] =
                           defineTableWith(defaults, name, fn, options)]
         /\ defaults' = DefaultsAfterMerge(defaults, options)
    /\ UNCHANGED <<pc, heap, handles, schema, files, d1>>

SiteCreateIndex ==
    /\ \E site \in Sites, name \in TableNames, column \in IndexColumnNames,
          options \in SiteIndexOptions :
         /\ call' = [call EXCEPT ![site] =
                         [op |-> "createIndex", table |-> useTable(name),
                          columns |-> <<column>>, options |-> options]]
         /\ result' = [result EXCEPT ![site] =
                           createIndex(useTable(name), <<column>>, options)]
    /\ UNCHANGED <<pc, defaults, heap, handles, schema, files, d1>>

SiteDropIndex ==
    /\ \E site \in Sites, name \in IndexNames :
         /\ call' = [call EXCEPT ![site] = [op |-> "dropIndex", name |-> name]]
         /\ result' = [result EXCEPT ![site] = dropIndex(name)]
    /\ UNCHANGED <<pc, defaults, heap, handles, schema, files, d1>>

SiteAddColumn ==
    /\ \E site \in Sites, name \in TableNames, column \in NewColumnNames,
          fn \in SiteAddColumnFns :
         /\ call' = [call EXCEPT ![site] =
                         [op |-> "addColumn", table |-> useTable(name),
                          column |-> column, fn |-> fn]]
         /\ result' = [result EXCEPT ![site] =
                           addColumn(useTable(name), column, fn)]
    /\ UNCHANGED <<pc, defaults, heap, handles, schema, files, d1>>

SiteDropTable ==
    /\ \E site \in Sites, name \in TableNames, updatedAtColumn \in UpdatedAtArgs :
         /\ call' = [call EXCEPT ![site] =
                         [op |-> "dropTable", table |-> useTable(name),
                          updatedAtColumn |-> updatedAtColumn]]
         /\ result' = [result EXCEPT ![site] =
                           dropTable(useTable(name), updatedAtColumn)]
    /\ UNCHANGED <<pc, defaults, heap, handles, schema, files, d1>>

InterleavedNext ==
    SiteDefineTable \/ SiteCreateIndex \/ SiteDropIndex \/ SiteAddColumn
    \/ SiteDropTable

InterleavedSpec == InterleavedInit /\ [][InterleavedNext]_vars

(***************************************************************************)
(* Table references: a caller gets a table from defineTable, useTable or   *)
(* the function of createUseTable, then passes it to createIndex,          *)
(* addColumn or dropTable.                                                 *)
(***************************************************************************)
RefTableOptions == {EmptyObject, [updatedAt |-> FALSE]}

\* the operations that return a table
ReferenceOps == {"defineTable", "useTable", "createUseTable"}

RefDefineTable ==
    /\ pc = "ready"
    /\ \E name \in TableNames, fn \in MigrationCallbacks,
          options \in RefTableOptions :
         /\ call' = [op |-> "defineTable", name |-> name, fn |-> fn,
                     options |-> options]
         /\ result' = defineTableWith(defaults, name, fn, options)
         /\ defaults' = DefaultsAfterMerge(defaults, options)
    /\ pc' = "returned"
    /\ UNCHANGED <<heap, handles, schema, files, d1>>

UseTable ==
    /\ pc = "ready"
    /\ \E name \in TableNames :
         /\ call' = [op |-> "useTable", name |-> name]
         /\ result' = useTable(name)
    /\ pc' = "returned"
    /\ UNCHANGED <<defaults, heap, handles, schema, files, d1>>

CreateUseTable ==
    /\ pc = "ready"
    /\ \E name \in TableNames :
         /\ call' = [op |-> "createUseTable", name |-> name]
         /\ result' = createUseTable(name)
    /\ pc' = "returned"
    /\ UNCHANGED <<defaults, heap, handles, schema, files, d1>>

\* the table just returned (result) is passed on; from: the operation it is of
RefCreateIndex ==
    /\ pc = "returned" /\ call.op \in ReferenceOps
    /\ \E columns \in IndexColumnLists, options \in SiteIndexOptions :
         /\ call' = [op |-> "createIndex", from |-> call.op, table |-> result,
                     columns |-> columns, options |-> options]
         /\ result' = createIndex(result, columns, options)
    /\ pc' = "used"
    /\ UNCHANGED <<defaults, heap, handles, schema, files, d1>>

RefAddColumn ==
    /\ pc = "returned" /\ call.op \in ReferenceOps
    /\ \E column \in NewColumnNames, fn \in SiteAddColumnFns :
         /\ call' = [op |-> "addColumn", from |-> call.op, table |-> result,
                     column |-> column, fn |-> fn]
         /\ result' = addColumn(result, column, fn)
    /\ pc' = "used"
    /\ UNCHANGED <<defaults, heap, handles, schema, files, d1>>

RefDropTable ==
    /\ pc = "returned" /\ call.op \in ReferenceOps
    /\ \E updatedAtColumn \in UpdatedAtArgs :
         /\ call' = [op |-> "dropTable", from |-> call.op, table |-> result,
                     updatedAtColumn |-> updatedAtColumn]
         /\ result' = dropTable(result, updatedAtColumn)
    /\ pc' = "used"
    /\ UNCHANGED <<defaults, heap, handles, schema, files, d1>>

\* the caller is done with the statement and starts over
RefReturn ==
    /\ pc = "used"
    /\ pc' = "ready"
    /\ call' = NoCall
    /\ result' = NoCall
    /\ UNCHANGED <<defaults, heap, handles, schema, files, d1>>

ReferenceNext ==
    RefDefineTable \/ UseTable \/ CreateUseTable \/ RefCreateIndex
    \/ RefAddColumn \/ RefDropTable \/ RefReturn

ReferenceSpec == Init /\ [][ReferenceNext]_vars

(***************************************************************************)
(* The executor (queryAll, queryBatch) on a D1Database.  d1.calls is the   *)
(* list of the calls made on the database and on its statements; a         *)
(* statement is its SQL text and the values bound to it.  The promise of   *)
(* all() or batch() is settled by the database (d1.settled) before the     *)
(* function resumes.                                                       *)
(***************************************************************************)
\* db.prepare(sql)
Prepared(sql) == [sql |-> sql, bound |-> Null]

\* statement.bind(...values)
Bound(statement, values) == [statement EXCEPT !.bound = Some(values)]

\* the calls of db.prepare(q.sql).bind(...q.parameters), and its value
PrepareAndBind(q) ==
    [calls |-> << [method |-> "prepare", args |-> <<q.sql>>],
                  [method |-> "bind", args |-> q.parameters] >>,
     value |-> Bound(Prepared(q.sql), q.parameters)]

\* queries.map((q) => db.prepare(q.sql).bind(...q.parameters))
RECURSIVE MapPrepareAndBind(_)
MapPrepareAndBind(queries) ==
    IF Len(queries) = 0 THEN [calls |-> <<>>, value |-> <<>>]
    ELSE LET first == PrepareAndBind(Head(queries))
             rest == MapPrepareAndBind(Tail(queries))
         IN  [calls |-> first.calls \o rest.calls,
              value |-> <<first.value>> \o rest.value]

\* mutant: undefined when the result has no rows
RowsOf_NoDefault(r) == IF "results" \in DOMAIN r THEN r.results ELSE <<"undefined">>

\* result.results ?? []
RowsOf(r) == IF "results" \in DOMAIN r THEN r.results ELSE <<>>

\* mutant: the results are returned last first
RunResults_Reversed(results) ==
    [i \in 1..Len(results) |->
        [success |-> results[Len(results) + 1 - i].success,
         meta |-> results[Len(results) + 1 - i].meta]]

\* results.map((r) => ({ success: r.success, meta: r.meta }))
RunResults(results) ==
    [i \in 1..Len(results) |->
        [success |-> results[i].success, meta |-> results[i].meta]]

\* Compiled queries: SQL text and parameters
Queries ==
    { [sql |-> "select * from \"User\"", parameters |-> <<>>],
      [sql |-> "select * from \"User\" where \"id\" = ?", parameters |-> <<"1">>],
      [sql |-> "insert into \"User\" (\"id\", \"name\") values (?, ?)",
       parameters |-> <<"2", "B">>] }

\* Lists of at most MaxQueries queries
QueryLists == UNION { [1..n -> Queries] : n \in 0..MaxQueries }

\* What the database resolves all() with: D1Result, results optional
AllResults ==
    { [results |-> <<"row1", "row2">>, success |-> TRUE, meta |-> "meta1"],
      [results |-> <<>>, success |-> TRUE, meta |-> "meta1"],
      [success |-> TRUE, meta |-> "meta2"] }

\* What the database resolves batch() with, per statement
BatchResults ==
    { [success |-> TRUE, meta |-> "meta1"],
      [success |-> FALSE, meta |-> "meta2"],
      [results |-> <<"row1">>, success |-> TRUE, meta |-> "meta3"] }

\* queryAll up to its await
QueryAll ==
    /\ pc = "ready"
    /\ \E query \in Queries :
         LET statement == PrepareAndBind(query)
         IN  /\ call' = [op |-> "queryAll", query |-> query]
             /\ d1' = [calls |-> statement.calls
                                 \o << [method |-> "all", args |-> <<>>] >>,
                       settled |-> Null]
    /\ pc' = "awaiting"
    /\ UNCHANGED <<result, defaults, heap, handles, schema, files>>

\* queryBatch up to its await
QueryBatch ==
    /\ pc = "ready"
    /\ \E queries \in QueryLists :
         LET statements == MapPrepareAndBind(queries)
         IN  /\ call' = [op |-> "queryBatch", queries |-> queries]
             /\ d1' = [calls |-> statements.calls
                                 \o << [method |-> "batch",
                                        args |-> <<statements.value>>] >>,
                       settled |-> Null]
    /\ pc' = "awaiting"
    /\ UNCHANGED <<result, defaults, heap, handles, schema, files>>

\* the database resolves the promise: a D1Result for all(), one D1Result per
\* statement for batch()
D1Resolve ==
    /\ pc = "awaiting" /\ d1.settled = Null
    /\ \/ /\ call.op = "queryAll"
          /\ \E r \in AllResults : d1' = [d1 EXCEPT !.settled = Some(r)]
       \/ /\ call.op = "queryBatch"
          /\ \E rs \in [1..Len(call.queries) -> BatchResults] :
               d1' = [d1 EXCEPT !.settled = Some(rs)]
    /\ UNCHANGED <<pc, call, result, defaults, heap, handles, schema, files>>

\* the database rejects the promise: the await throws and the function's own
\* promise is rejected
D1Reject ==
    /\ pc = "awaiting" /\ d1.settled = Null
    /\ pc' = "rejected"
    /\ UNCHANGED <<call, result, d1, defaults, heap, handles, schema, files>>

\* queryAll after its await
QueryAllResume ==
    /\ pc = "awaiting" /\ call.op = "queryAll" /\ d1.settled # Null
    /\ result' = RowsOf(d1.settled[1])
    /\ pc' = "returned"
    /\ UNCHANGED <<call, d1, defaults, heap, handles, schema, files>>

\* queryBatch after its await
QueryBatchResume ==
    /\ pc = "awaiting" /\ call.op = "queryBatch" /\ d1.settled # Null
    /\ result' = RunResults(d1.settled[1])
    /\ pc' = "returned"
    /\ UNCHANGED <<call, d1, defaults, heap, handles, schema, files>>

\* the caller goes on with a new database object
ExecutorReturn ==
    /\ pc \in {"returned", "rejected"}
    /\ pc' = "ready"
    /\ call' = NoCall
    /\ result' = NoCall
    /\ d1' = NoD1Calls
    /\ UNCHANGED <<defaults, heap, handles, schema, files>>

ExecutorNext ==
    QueryAll \/ QueryBatch \/ D1Resolve \/ D1Reject \/ QueryAllResume
    \/ QueryBatchResume \/ ExecutorReturn

ExecutorSpec == Init /\ [][ExecutorNext]_vars

(***************************************************************************)
(* The commands migrate:create and migrate:build (cmdMigrateCreate,        *)
(* cmdMigrateBuild).  files.src is d1-kyt/migrations, files.out the output *)
(* directory; files.content says what the migration() of a source file     *)
(* does: "empty" (returns []), "statements" or "throws".  files.written    *)
(* lists the writeFileSync calls of the last command, files.last is the    *)
(* last thing that happened and files.prev the one before.                 *)
(***************************************************************************)
\* the UTF-16 code units of the characters file names are made of
CharCode ==
    ("-" :> 45) @@ ("." :> 46) @@ ("0" :> 48) @@ ("1" :> 49) @@ ("2" :>
    50) @@ ("3" :> 51) @@ ("4" :> 52) @@ ("5" :> 53) @@ ("6" :> 54) @@ ("7" :> 55) @@
    ("8" :> 56) @@ ("9" :> 57) @@ ("U" :> 85) @@ ("_" :> 95) @@ ("a" :>
    97) @@ ("c" :> 99) @@ ("d" :> 100) @@ ("e" :> 101) @@ ("f" :> 102) @@
    ("g" :> 103) @@ ("h" :> 104) @@ ("i" :> 105) @@ ("l" :> 108) @@ ("m"
    :> 109) @@ ("n" :> 110) @@ ("o" :> 111) @@ ("p" :> 112) @@ ("q" :>
    113) @@ ("r" :> 114) @@ ("s" :> 115) @@ ("t" :> 116) @@ ("u" :> 117)
    @@ ("x" :> 120)

\* a < b as strings (the order of Array.prototype.sort without comparator)
RECURSIVE StringLess(_, _)
StringLess(a, b) ==
    IF Len(b) = 0 THEN FALSE
    ELSE IF Len(a) = 0 THEN TRUE
    ELSE IF Head(a) = Head(b) THEN StringLess(Tail(a), Tail(b))
    ELSE CharCode[Head(a)] < CharCode[Head(b)]

\* the names of a set in ascending order: .sort()
RECURSIVE Sorted(_)
Sorted(names) ==
    IF names = {} THEN <<>>
    ELSE LET least == CHOOSE a \in names : \A b \in names \ {a} : StringLess(a, b)
         IN  <<least>> \o Sorted(names \ {least})

\* readdirSync(dir): the names in the directory (listed in sorted order)
readdirSync(dir) == Sorted(dir)

\* the number of digits f starts with
RECURSIVE LeadingDigits(_)
LeadingDigits(f) ==
    IF Len(f) > 0 /\ IsDigit(Head(f)) THEN 1 + LeadingDigits(Tail(f)) ELSE 0

\* /^\d{3,14}_.*\.ts$/.test(f)
TestBuildPattern(f) ==
    LET n == LeadingDigits(f)
    IN  /\ n >= 3 /\ n <= 14
        /\ Len(f) > n /\ f[n + 1] = "_"
        /\ EndsWith(SubSeq(f, n + 2, Len(f)), <<".", "t", "s">>)

\* tsFile.replace(/\.ts$/, '.sql')
ReplaceTsBySql(tsFile) ==
    IF EndsWith(tsFile, <<".", "t", "s">>)
    THEN SubSeq(tsFile, 1, Len(tsFile) - 3) \o <<".", "s", "q", "l">>
    ELSE tsFile

\* [a-z] and [A-Z] among the letters of the migration names
LowerOf == ("U" :> "u")
IsUpper(c) == c \in DOMAIN LowerOf
IsLower(c) == c \in {"a", "d", "e", "o", "p", "r", "s", "t", "u"}

\* [\s-]
IsSpaceOrHyphen(c) == c \in {" ", "-"}

\* .replace(/([a-z])([A-Z])/g, '$1_$2')
RECURSIVE SplitCamel(_)
SplitCamel(name) ==
    IF Len(name) < 2 THEN name
    ELSE IF IsLower(name[1]) /\ IsUpper(name[2])
    THEN <<name[1], "_", name[2]>> \o SplitCamel(SubSeq(name, 3, Len(name)))
    ELSE <<name[1]>> \o SplitCamel(Tail(name))

\* .replace(/[\s-]+/g, '_')
RECURSIVE ReplaceSeparators(_)
ReplaceSeparators(name) ==
    IF Len(name) = 0 THEN <<>>
    ELSE IF IsSpaceOrHyphen(name[1])
    THEN IF Len(name) >= 2 /\ IsSpaceOrHyphen(name[2])
         THEN ReplaceSeparators(Tail(name))
         ELSE <<"_">> \o ReplaceSeparators(Tail(name))
    ELSE <<name[1]>> \o ReplaceSeparators(Tail(name))

\* .toLowerCase()
toLowerCase(name) ==
    [i \in 1..Len(name) |-> IF IsUpper(name[i]) THEN LowerOf[name[i]] ELSE name[i]]

snakeName(name) == toLowerCase(ReplaceSeparators(SplitCamel(name)))

\* new Date() when the clock has advanced by now seconds
DateAt(now) ==
    [year |-> 2024, month |-> 2, date |-> 15,
     hours |-> 9, minutes |-> 5, seconds |-> 30 + now]

\* the names given to migrate:create
MigrationNames ==
    { <<"a", "d", "d", "U", "s", "e", "r", "s">>,
      <<"a", "d", "d", "-", "u", "s", "e", "r", "s">>,
      <<"p", "o", "s", "t", "s">> }

\* what migration() of an edited source file does
EditedContents == {"statements", "throws"}

\* the directories and the configuration the commands start from
InitialFiles ==
    { [NoFiles EXCEPT !.src = src, !.out = out,
                      !.content = [f \in src |-> "statements"],
                      !.namingStrategy = strategy] :
        src \in { {},
                  { <<"9", "9", "9", "9", "_", "l", "a", "s", "t", ".", "t", "s">> },
                  { <<"0", "0", "0", "1", "_", "f", "i", "r", "s", "t", ".", "t", "s">>,
                    <<"r", "e", "a", "d", "m", "e", ".", "m", "d">> } },
        out \in { {},
                  { <<"0", "0", "0", "1", "_", "f", "i", "r", "s", "t", ".", "s", "q", "l">> } },
        strategy \in {Null, Some("timestamp")} }

CliInit ==
    /\ pc = "ready"
    /\ call = NoCall
    /\ result = NoCall
    /\ defaults = defaultTableOptions
    /\ heap = <<>>
    /\ handles = <<>>
    /\ schema = EmptySchema
    /\ files \in InitialFiles
    /\ d1 = NoD1Calls

\* cmdMigrateCreate(name): the files after the command
cmdMigrateCreate(fs, name) ==
    LET strategy == NullishCoalesce(fs.namingStrategy, "sequential")
        existingSql == readdirSync(fs.out)
        existingTs == readdirSync(fs.src)
        existingFiles == existingSql \o existingTs
        prefix == generateMigrationPrefix(strategy, existingFiles, DateAt(fs.now))
        filename == prefix \o <<"_">> \o snakeName(name) \o <<".", "t", "s">>
    IN  [fs EXCEPT !.src = @ \cup {filename},
                   !.content = [f \in fs.src \cup {filename} |->
                                   IF f = filename THEN "empty" ELSE fs.content[f]],
                   !.written = << [file |-> filename, from |-> filename,
                                   dir |-> "src",
                                   existed |-> filename \in fs.src] >>]

\* one turn of the loop of cmdMigrateBuild with the file tsFile
BuildOne_Overwrite(fs, tsFile, acc) ==
    LET sqlFile == ReplaceTsBySql(tsFile)
    IN  IF fs.content[tsFile] = "throws" THEN [acc EXCEPT !.exited = TRUE]
        ELSE IF fs.content[tsFile] = "empty" THEN acc
        ELSE [acc EXCEPT !.out = @ \cup {sqlFile},
                         !.written = Append(@, [file |-> sqlFile, from |-> tsFile,
                                                dir |-> "out",
                                                existed |-> sqlFile \in acc.out])]

BuildOne(fs, tsFile, acc) ==
    LET sqlFile == ReplaceTsBySql(tsFile)
    IN  IF sqlFile \in acc.out THEN acc
        ELSE IF fs.content[tsFile] = "throws" THEN [acc EXCEPT !.exited = TRUE]
        ELSE IF fs.content[tsFile] = "empty" THEN acc
        ELSE [acc EXCEPT !.out = @ \cup {sqlFile},
                         !.written = Append(@, [file |-> sqlFile, from |-> tsFile,
                                                dir |-> "out",
                                                existed |-> sqlFile \in acc.out])]

\* for (const tsFile of tsFiles): process.exit(1) ends it
RECURSIVE BuildLoop(_, _, _)
BuildLoop(fs, tsFiles, acc) ==
    IF Len(tsFiles) = 0 \/ acc.exited THEN acc
    ELSE BuildLoop(fs, Tail(tsFiles), BuildOne(fs, Head(tsFiles), acc))

\* readdirSync(srcDir).filter(...).sort()
BuildSources(fs) == Sorted({f \in fs.src : TestBuildPattern(f)})

\* cmdMigrateBuild(): the files after the command
cmdMigrateBuild(fs) ==
    LET done == BuildLoop(fs, BuildSources(fs),
                          [out |-> fs.out, written |-> <<>>, exited |-> FALSE])
    IN  [fs EXCEPT !.out = done.out, !.written = done.written]

MigrateCreate ==
    /\ files.commands < MaxCommands
    /\ \E name \in MigrationNames :
         files' = [cmdMigrateCreate(files, name) EXCEPT
                     !.last = "create", !.prev = files.last,
                     !.commands = @ + 1]
    /\ UNCHANGED <<pc, call, result, defaults, heap, handles, schema, d1>>

MigrateBuild ==
    /\ files.commands < MaxCommands
    /\ files' = [cmdMigrateBuild(files) EXCEPT
                   !.last = "build", !.prev = files.last,
                   !.commands = @ + 1]
    /\ UNCHANGED <<pc, call, result, defaults, heap, handles, schema, d1>>

\* the developer writes the body of a migration
EditMigration ==
    /\ \E f \in files.src, content \in EditedContents :
         /\ TestBuildPattern(f)
         /\ files.content[f] # content
         /\ files' = [files EXCEPT !.content[f] = content,
                                   !.last = "edit", !.prev = files.last]
    /\ UNCHANGED <<pc, call, result, defaults, heap, handles, schema, d1>>

\* a second passes
Tick ==
    /\ files.now < MaxTicks
    /\ files' = [files EXCEPT !.now = @ + 1]
    /\ UNCHANGED <<pc, call, result, defaults, heap, handles, schema, d1>>

CliNext == MigrateCreate \/ MigrateBuild \/ EditMigration \/ Tick

CliSpec == CliInit /\ [][CliNext]_vars

(***************************************************************************)
(* Callers of generateSequentialPrefix.                                    *)
(***************************************************************************)

GenerateSequentialPrefix ==
    /\ pc = "ready"
    /\ \E existingFiles \in FileLists :
         /\ call' = [op |-> "generateSequentialPrefix",
                     existingFiles |-> existingFiles]
         /\ result' = generateSequentialPrefix(existingFiles)
    /\ pc' = "returned"
    /\ UNCHANGED <<defaults, heap, handles, schema, files, d1>>

NamingNext == GenerateSequentialPrefix \/ Return

NamingSpec == Init /\ [][NamingNext]_vars

(***************************************************************************)
(* Reading the returned SQL back: the statements are taken apart by their  *)
(* punctuation, independently of the operators that built them.            *)
(***************************************************************************)
Returned(op) == pc = "returned" /\ call.op = op

\* the pieces of s between the separators sep
RECURSIVE Split(_, _)
Split(s, sep) ==
    IF Len(s) = 0 THEN <<>>
    ELSE IF \E i \in 1..Len(s) : s[i] = sep
         THEN LET i == CHOOSE i \in 1..Len(s) :
                          s[i] = sep /\ \A j \in 1..(i-1) : s[j] # sep
              IN  <<SubSeq(s, 1, i-1)>> \o Split(SubSeq(s, i+1, Len(s)), sep)
         ELSE <<s>>

IsCreateTable(stmt, name) ==
    /\ Len(stmt) >= 4
    /\ stmt[1] = "CREATE TABLE \"" /\ stmt[2] = name /\ stmt[3] = "\" (\n"
    /\ stmt[Len(stmt)] = "\n);"

\* the column lines of a CREATE TABLE statement
ColumnLines(stmt) == Split(SubSeq(stmt, 4, Len(stmt) - 1), ",\n")

\* the name a column line declares
LineName(line) == line[2]

IsColumnLine(line) == Len(line) >= 3 /\ line[1] = "  \""

IdLine(n) == "  \"" \o n \o "\" INTEGER PRIMARY KEY AUTOINCREMENT"
TimestampLine(n) == "  \"" \o n \o "\" TEXT NOT NULL DEFAULT (datetime('now'))"

\* a CREATE TRIGGER statement of table name on column u, correlating on l = NEW.r
IsTrigger(stmt) == Len(stmt) >= 1 /\ stmt[1] = "CREATE TRIGGER \""
TriggerText(name, u, l, r) ==
    "CREATE TRIGGER \"" \o name \o "_" \o u \o "_trg\"\nAFTER UPDATE ON \""
    \o name \o "\"\nFOR EACH ROW\nBEGIN\n  UPDATE \"" \o name \o "\" SET \""
    \o u \o "\" = datetime('now') WHERE \"" \o l \o "\" = NEW.\"" \o r
    \o "\";\nEND;"
\* the two columns of a trigger's WHERE clause
WhereLeft(stmt) == stmt[12]
WhereRight(stmt) == stmt[14]

\* the options of the defineTable call as documented: omitted means the default
OptGiven(k) == k \in DOMAIN call.options
Enabled(k) == IF OptGiven(k) THEN call.options[k] ELSE TRUE
NameOf(k, dflt) == IF OptGiven(k) THEN call.options[k] ELSE dflt
IdName == NameOf("idColumn", "id")
CreatedName == NameOf("createdAtColumn", "createdAt")
UpdatedName == NameOf("updatedAtColumn", "updatedAt")
NumId == IF Enabled("id") THEN 1 ELSE 0
NumCreated == IF Enabled("createdAt") THEN 1 ELSE 0
NumUpdated == IF Enabled("updatedAt") THEN 1 ELSE 0
NumUser == Len(call.fn)
DeclaredNames == [i \in 1..Len(call.fn) |-> call.fn[i].name]
DeclaredAt(n) == CHOOSE i \in 1..Len(call.fn) : call.fn[i].name = n

\* the auto column lines are where the claim puts them
AutoLinesInPlace(lines) ==
    /\ Len(lines) = NumId + NumUser + NumCreated + NumUpdated
    /\ \A i \in 1..Len(lines) : IsColumnLine(lines[i])
    /\ Enabled("id") => Text(lines[1]) = IdLine(IdName)
    /\ Enabled("createdAt") =>
         Text(lines[NumId + NumUser + 1]) = TimestampLine(CreatedName)
    /\ Enabled("updatedAt") =>
         Text(lines[Len(lines)]) = TimestampLine(UpdatedName)

\* with no options given the trigger follows and correlates on the surrogate key
DefaultTrigger ==
    call.options = EmptyObject =>
        /\ Len(result.sql) = 2
        /\ Text(result.sql[2]) = TriggerText(call.name, "updatedAt", "id", "id")

\* the names of the user column lines, in the order of the statement
UserLineNames(lines) == [i \in 1..NumUser |-> LineName(lines[NumId + i])]

Triggers == {i \in 1..Len(result.sql) : IsTrigger(result.sql[i])}

\* C2: with updatedAt disabled the result has exactly one statement, the CREATE
\* TABLE, which has no updated-timestamp column line (its lines are the
\* surrogate key line, the user columns and the created-timestamp line only),
\* and no CREATE TRIGGER statement is emitted.
C2_NoUpdatedAtNoTrigger ==
    (Returned("defineTable") /\ ~Enabled("updatedAt")) =>
        LET lines == ColumnLines(result.sql[1])
        IN  /\ Len(result.sql) = 1
            /\ IsCreateTable(result.sql[1], call.name)
            /\ Triggers = {}
            /\ Len(lines) = NumId + NumUser + NumCreated
            /\ \A i \in 1..Len(lines) :
                 Text(lines[i]) # TimestampLine(UpdatedName)

\* C2 witness: updatedAt: false with the surrogate key, one user column and
\* createdAt kept; one statement came back.
C2_Witness ==
    /\ Returned("defineTable")
    /\ call.options = [updatedAt |-> FALSE]
    /\ DeclaredNames = <<"name">>
    /\ result.sql = << <<"CREATE TABLE \"", call.name, "\" (\n",
                         "  \"", "id", "\" INTEGER PRIMARY KEY AUTOINCREMENT", ",\n",
                         "  \"", "name", "\" ", "TEXT", " NOT NULL", ",\n",
                         "  \"", "createdAt",
                         "\" TEXT NOT NULL DEFAULT (datetime('now'))",
                         "\n);">> >>

\* the surrogate key is disabled, updatedAt is enabled, a user column exists
NoIdButUpdatedAt ==
    /\ Returned("defineTable")
    /\ OptGiven("id") /\ ~call.options.id
    /\ Enabled("updatedAt")

\* the user column Object.keys lists first: the one with the smallest
\* array-index name if there is one, otherwise the first declared
FirstKey ==
    LET idx == {n \in {DeclaredNames[i] : i \in 1..NumUser} : IsArrayIndex(n)}
    IN  IF idx # {}
        THEN CHOOSE n \in idx : \A m \in idx : ArrayIndexValue[n] <= ArrayIndexValue[m]
        ELSE DeclaredNames[1]

C4_NoColumnNoTrigger ==
    (NoIdButUpdatedAt /\ NumUser = 0) =>
        /\ Len(result.sql) = 1
        /\ IsCreateTable(result.sql[1], call.name)
        /\ Triggers = {}

\* C4 witness: defineTable('Place', col => ({}), { id: false }) returned the
\* CREATE TABLE with the two timestamp lines only.
C4_Witness ==
    /\ NoIdButUpdatedAt /\ NumUser = 0
    /\ call.options = [id |-> FALSE] /\ call.name = "Place"
    /\ Len(result.sql) = 1
    /\ Text(result.sql[1]) =
         "CREATE TABLE \"Place\" (\n"
         \o "  \"createdAt\" TEXT NOT NULL DEFAULT (datetime('now')),\n"
         \o "  \"updatedAt\" TEXT NOT NULL DEFAULT (datetime('now'))\n);"

\* the default name of every renamed auto column is no fragment of the output
DefaultNamesGone ==
    \A k \in {"idColumn", "createdAtColumn", "updatedAtColumn"} :
        (OptGiven(k) /\ call.options[k] # defaultTableOptions[k]) =>
            \A s \in 1..Len(result.sql) : \A i \in 1..Len(result.sql[s]) :
                result.sql[s][i] # defaultTableOptions[k]

\* C5: the custom names of the surrogate key, created-timestamp and
\* updated-timestamp columns are used wherever the column is referred to: in
\* its CREATE TABLE line, (surrogate key) on both sides of the trigger's WHERE
\* clause, (updated-timestamp) in the trigger name "<table>_<name>_trg" and in
\* the trigger's SET clause; the default name of a renamed column appears
\* nowhere in the output.
C5_CustomNamesPropagate ==
    Returned("defineTable") =>
        /\ AutoLinesInPlace(ColumnLines(result.sql[1]))
        /\ Len(result.sql) = 2 =>
             /\ Text(result.sql[2]) =
                  TriggerText(call.name, UpdatedName,
                              WhereLeft(result.sql[2]), WhereRight(result.sql[2]))
             /\ Enabled("id") =>
                  /\ WhereLeft(result.sql[2]) = IdName
                  /\ WhereRight(result.sql[2]) = IdName
        /\ DefaultNamesGone

\* C5 witness: idColumn: 'place_id', createdAtColumn: 'created_at',
\* updatedAtColumn: 'updated_at' on table Place with the column name; both
\* statements carry the custom names.
C5_Witness ==
    /\ Returned("defineTable")
    /\ call.name = "Place" /\ DeclaredNames = <<"name">>
    /\ call.options = [idColumn |-> "place_id", createdAtColumn |-> "created_at",
                       updatedAtColumn |-> "updated_at"]
    /\ Text(result.sql[1]) =
         "CREATE TABLE \"Place\" (\n"
         \o "  \"place_id\" INTEGER PRIMARY KEY AUTOINCREMENT,\n"
         \o "  \"name\" TEXT NOT NULL,\n"
         \o "  \"created_at\" TEXT NOT NULL DEFAULT (datetime('now')),\n"
         \o "  \"updated_at\" TEXT NOT NULL DEFAULT (datetime('now'))\n);"
    /\ Text(result.sql[2]) =
         "CREATE TRIGGER \"Place_updated_at_trg\"\nAFTER UPDATE ON \"Place\"\n"
         \o "FOR EACH ROW\nBEGIN\n  UPDATE \"Place\" SET \"updated_at\" = "
         \o "datetime('now') WHERE \"place_id\" = NEW.\"place_id\";\nEND;"

\* the options are the test suite's { primaryKey: false }, with no id option
PrimaryKeyFalse ==
    /\ Returned("defineTable")
    /\ OptGiven("primaryKey") /\ ~call.options.primaryKey
    /\ ~OptGiven("id") /\ ~OptGiven("idColumn")

\* C6: with { primaryKey: false } the CREATE TABLE has no "id" column while the
\* user columns and, unless disabled, "createdAt" and "updatedAt" are present;
\* with { primaryKey: false, createdAt: false, updatedAt: false } and one user
\* column the output is one statement with exactly that one column line.
C6_PrimaryKeyFalseDropsId ==
    PrimaryKeyFalse =>
        LET lines == ColumnLines(result.sql[1])
            names == {LineName(lines[i]) : i \in 1..Len(lines)}
        IN  /\ "id" \notin names
            /\ {DeclaredNames[i] : i \in 1..NumUser} \subseteq names
            /\ Enabled("createdAt") => CreatedName \in names
            /\ Enabled("updatedAt") => UpdatedName \in names
            /\ (~Enabled("createdAt") /\ ~Enabled("updatedAt") /\ NumUser = 1) =>
                 Len(result.sql) = 1 /\ Len(lines) = 1

\* C7: { primaryKeyColumn: 'place_id' } names the surrogate key column
\* "place_id" in CREATE TABLE and in the trigger's WHERE clause; { primaryKey:
\* false } with the user columns uuid, name makes the WHERE clause read
\* "uuid" = NEW."uuid".
C7_PrimaryKeyColumnRenames ==
    /\ ( /\ Returned("defineTable")
         /\ OptGiven("primaryKeyColumn") /\ ~OptGiven("id") /\ ~OptGiven("idColumn")
         /\ Enabled("updatedAt") ) =>
            /\ Text(ColumnLines(result.sql[1])[1])
                 = IdLine(call.options.primaryKeyColumn)
            /\ Len(result.sql) = 2
            /\ WhereLeft(result.sql[2]) = call.options.primaryKeyColumn
            /\ WhereRight(result.sql[2]) = call.options.primaryKeyColumn
    /\ ( /\ PrimaryKeyFalse /\ Enabled("updatedAt")
         /\ DeclaredNames = <<"uuid", "name">> ) =>
            /\ Len(result.sql) = 2
            /\ WhereLeft(result.sql[2]) = "uuid"
            /\ WhereRight(result.sql[2]) = "uuid"

(***************************************************************************)
(* createIndex read back.                                                  *)
(***************************************************************************)
\* the unique option as documented: false when absent
UniqueFlag ==
    IF "unique" \in DOMAIN call.options THEN call.options.unique ELSE FALSE

\* the fragments of the index identifier: between INDEX " and " ON "
IndexNameOf(stmt) ==
    LET on == CHOOSE i \in 1..Len(stmt) :
                  stmt[i] = "\" ON \"" /\ \A j \in 1..(i-1) : stmt[j] # "\" ON \""
    IN  SubSeq(stmt, 4, on - 1)

\* strs joined by sep, as one string
RECURSIVE JoinText(_, _)
JoinText(strs, sep) ==
    IF Len(strs) = 0 THEN ""
    ELSE IF Len(strs) = 1 THEN strs[1]
    ELSE strs[1] \o sep \o JoinText(Tail(strs), sep)

C9_ExplicitIndexName ==
    (Returned("createIndex") /\ "name" \in DOMAIN call.options) =>
        /\ IndexNameOf(result) = <<call.options.name>>
        /\ result[1] = "CREATE " /\ result[3] = "INDEX \""
        /\ result[2] = (IF UniqueFlag THEN "UNIQUE " ELSE "")

\* C9 witness: createIndex(Place, ['cityId'], { unique: true, name:
\* 'idx_place_city' }) returned a unique index named idx_place_city.
C9_Witness ==
    /\ Returned("createIndex")
    /\ call.options = [unique |-> TRUE, name |-> "idx_place_city"]
    /\ call.table._name = "Place" /\ call.columns = <<"cityId">>
    /\ Text(result) = "CREATE UNIQUE INDEX \"idx_place_city\" ON \"Place\"(\"cityId\");"

\* C10: createIndex returns one statement CREATE [UNIQUE ]INDEX "<name>" ON
\* "<table>"(<cols>); with UNIQUE present exactly when the unique option is
\* true and <cols> the given columns, each once, in the given order, each
\* double-quoted, separated by ', '.
C10_CreateIndexForm ==
    Returned("createIndex") =>
        /\ Text(result) =
             "CREATE " \o (IF UniqueFlag THEN "UNIQUE " ELSE "") \o "INDEX \""
             \o Text(IndexNameOf(result)) \o "\" ON \"" \o call.table._name
             \o "\"("
             \o JoinText([i \in 1..Len(call.columns) |->
                            "\"" \o call.columns[i] \o "\""], ", ")
             \o ");"
        /\ {i \in 1..Len(result) : result[i] = ");"} = {Len(result)}

\* C10 witness: a unique index on the columns status, cityId, in that order.
C10_Witness ==
    /\ Returned("createIndex")
    /\ call.table._name = "Place" /\ call.columns = <<"status", "cityId">>
    /\ call.options = [unique |-> TRUE]
    /\ Text(result) =
         "CREATE UNIQUE INDEX \"Place_status_cityId_uq\" ON \"Place\"(\"status\", \"cityId\");"

(***************************************************************************)
(* addColumn, dropTable.                                                   *)
(***************************************************************************)
\* what a chain of setter calls asks for
ChainMarksNotNull(chain) == \E i \in 1..Len(chain) : chain[i][1] = "notNull"
ChainSetsDefault(chain) == \E i \in 1..Len(chain) : chain[i][1] = "default"
ChainLastDefault(chain) ==
    LET i == CHOOSE i \in 1..Len(chain) :
                 /\ chain[i][1] = "default"
                 /\ \A j \in (i+1)..Len(chain) : chain[j][1] # "default"
    IN  chain[i][2]

\* the type keyword of a factory
FactoryType ==
    [text |-> "TEXT", integer |-> "INTEGER", real |-> "REAL", blob |-> "BLOB"]

\* the position of fragment f in statement stmt, 0 when it is not there
PositionOf(stmt, f) ==
    IF \E i \in 1..Len(stmt) : stmt[i] = f
    THEN CHOOSE i \in 1..Len(stmt) : stmt[i] = f ELSE 0

\* C11: addColumn returns the one statement
\* ALTER TABLE "<table>" ADD COLUMN "<col>" <TYPE>[ NOT NULL][ DEFAULT <expr>];
\* NOT NULL is there exactly when a notNull() was chained, DEFAULT exactly when
\* a default() was chained (with the value of the last one), and NOT NULL
\* comes before DEFAULT in whatever order the setters were chained.
C11_AddColumnForm ==
    Returned("addColumn") =>
        LET chain == call.fn.chain
            nn == PositionOf(result, " NOT NULL")
            dv == PositionOf(result, " DEFAULT ")
        IN  /\ Text(result) =
                  "ALTER TABLE \"" \o call.table._name \o "\" ADD COLUMN \""
                  \o call.column \o "\" " \o FactoryType[call.fn.factory]
                  \o (IF ChainMarksNotNull(chain) THEN " NOT NULL" ELSE "")
                  \o (IF ChainSetsDefault(chain)
                      THEN " DEFAULT " \o ChainLastDefault(chain) ELSE "")
                  \o ";"
            /\ (nn > 0) <=> ChainMarksNotNull(chain)
            /\ (dv > 0) <=> ChainSetsDefault(chain)
            /\ (nn > 0 /\ dv > 0) => nn < dv

\* a default() chained before the notNull() still renders NOT NULL first
C11_Witness ==
    /\ Returned("addColumn")
    /\ call.fn.chain = << <<"default", "0">>, <<"notNull">> >>
    /\ Text(result) = "ALTER TABLE \"Place\" ADD COLUMN \"featured\" INTEGER NOT NULL DEFAULT 0;"

Deref(h) == heap[handles[h].ref]

\* the column line and the addColumn clauses a descriptor renders to
RenderLine(def) == Text(UserColumnDef("c", def))
RenderClauses(def) == Text(ColumnClauses(def))

\* every setter is called at most once in chain
CalledOnce(chain) ==
    \A i, j \in 1..Len(chain) : i # j => chain[i][1] # chain[j][1]

\* many repeats the calls of once: notNull() one or more times where once has
\* it, default(v) one or more times with the one value v where once has it
Repeats(many, once) ==
    /\ ChainMarksNotNull(many) <=> ChainMarksNotNull(once)
    /\ ChainSetsDefault(many) <=> ChainSetsDefault(once)
    /\ \A i \in 1..Len(many) :
         many[i][1] = "default" => many[i][2] = ChainLastDefault(once)

\* C14: a descriptor on which notNull() was called one or more times and
\* default(v) any number of times with the same v renders the same SQL, as a
\* column line and as addColumn clauses, as a descriptor of the same factory
\* on which each of these setters was called once.
C14_SettersIdempotent ==
    \A h1, h2 \in DOMAIN handles :
        ( /\ handles[h1].factory = handles[h2].factory
          /\ CalledOnce(handles[h2].calls)
          /\ Repeats(handles[h1].calls, handles[h2].calls) )
        => /\ RenderLine(Deref(h1)) = RenderLine(Deref(h2))
           /\ RenderClauses(Deref(h1)) = RenderClauses(Deref(h2))

\* notNull() three times against notNull() once
C14_Witness ==
    /\ Len(handles) = 2
    /\ handles[1].factory = "text" /\ handles[2].factory = "text"
    /\ handles[1].calls = << <<"notNull">>, <<"notNull">>, <<"notNull">> >>
    /\ handles[2].calls = << <<"notNull">> >>
    /\ RenderLine(Deref(1)) = "  \"c\" TEXT NOT NULL"
    /\ RenderLine(Deref(2)) = "  \"c\" TEXT NOT NULL"

\* C15: after any sequence of notNull() and default(v) calls on a descriptor
\* its isNotNull is true exactly when notNull() was called at least once, its
\* defaultValue is the argument of the last default() call (null when there
\* was none) and its type is the one of its factory; how the notNull() calls
\* are interleaved with the default() calls plays no part.
C15_DescriptorFromCalls ==
    \A h \in DOMAIN handles :
        /\ Deref(h).isNotNull = ChainMarksNotNull(handles[h].calls)
        /\ Deref(h).defaultValue =
              (IF ChainSetsDefault(handles[h].calls)
               THEN Some(ChainLastDefault(handles[h].calls)) ELSE Null)
        /\ Deref(h).type = FactoryType[handles[h].factory]

\* default('N/A'), notNull(), default(0): not null, and the last default
C15_Witness ==
    /\ Len(handles) >= 1
    /\ handles[1].factory = "integer"
    /\ handles[1].calls = << <<"default", "'N/A'">>, <<"notNull">>, <<"default", "0">> >>
    /\ Deref(1) = [type |-> "INTEGER", isNotNull |-> TRUE, defaultValue |-> <<"0">>]

\* the step leaves every descriptor it makes no call on as it was, and a
\* descriptor it creates is a new object, not null and without default
C16_Frame ==
    /\ \A h \in DOMAIN handles :
         handles'[h].calls = handles[h].calls
             => heap'[handles'[h].ref] = heap[handles[h].ref]
    /\ \A h \in (DOMAIN handles') \ (DOMAIN handles) :
         /\ heap'[handles'[h].ref] =
               [type |-> FactoryType[handles'[h].factory], isNotNull |-> FALSE,
                defaultValue |-> Null]
         /\ \A g \in DOMAIN handles : handles[g].ref # handles'[h].ref

\* C16: every factory call returns a fresh descriptor, not null and without
\* default, and a setter call on one descriptor leaves every other descriptor
\* unchanged.
C16_FreshAndFramed == [][C16_Frame]_vars

\* two descriptors of the same factory: one was set, the other is untouched
C16_Witness ==
    /\ Len(handles) = 2
    /\ handles[1].factory = "text" /\ handles[2].factory = "text"
    /\ handles[1].calls = << <<"notNull">>, <<"default", "0">> >>
    /\ handles[2].calls = <<>>
    /\ Deref(1) = [type |-> "TEXT", isNotNull |-> TRUE, defaultValue |-> <<"0">>]
    /\ Deref(2) = [type |-> "TEXT", isNotNull |-> FALSE, defaultValue |-> Null]

(***************************************************************************)
(* Creating and dropping a table's trigger.                                *)
(***************************************************************************)
\* C13: the trigger dropTable(ref(t), u) drops is the trigger
\* defineTable(t, cols, {updatedAtColumn: u}) created, whenever it created
\* one; after the statements of defineTable and then those of dropTable were
\* run, neither the table nor a trigger on it remains.
C13_TriggerNameConsistent ==
    call.op = "dropTable" =>
        /\ call.created # Null =>
              StatementTriggerName(result[2]) = call.created[1]
        /\ call.table._name \notin schema.tables
        /\ \A t \in schema.triggers : t.table # call.table._name

\* a table declared with a custom column name, and its trigger, are gone
C13_Witness ==
    /\ call.op = "dropTable"
    /\ call.table._name = "Place"
    /\ call.updatedAtColumn = Some("updated_at")
    /\ call.created = Some("Place_updated_at_trg")
    /\ Text(result[2]) = "DROP TRIGGER IF EXISTS \"Place_updated_at_trg\";"
    /\ schema.tables = {} /\ schema.triggers = {}

(***************************************************************************)
(* The statement list of defineTable.                                      *)
(***************************************************************************)
\* the list is the CREATE TABLE, followed by the CREATE TRIGGER exactly when
\* second holds
StatementListIs(second) ==
    /\ Len(result.sql) \in {1, 2}
    /\ IsCreateTable(result.sql[1], call.name)
    /\ ~IsTrigger(result.sql[1])
    /\ (Len(result.sql) = 2) <=> second
    /\ Len(result.sql) = 2 => IsTrigger(result.sql[2])

\* C17 as stated: the statement list of defineTable is the CREATE TABLE,
\* followed by the CREATE TRIGGER exactly when updatedAt is enabled and a
\* correlating column exists (the surrogate key is enabled or there is at
\* least one user column).
C17_TriggerIffColumnExists ==
    Returned("defineTable") =>
        StatementListIs(Enabled("updatedAt") /\ (Enabled("id") \/ NumUser > 0))

\* the name of the correlating column, Null when there is no such column
CorrelatingName ==
    IF Enabled("id") THEN Some(IdName)
    ELSE IF NumUser > 0 THEN Some(FirstKey) ELSE Null

\* What defineTable does: the statement list is the CREATE TABLE, followed by
\* the CREATE TRIGGER exactly when updatedAt is enabled and the correlating
\* column (the surrogate key if enabled, else the first user column of
\* Object.keys) exists and has a non-empty name.
TriggerIffColumnNamed ==
    Returned("defineTable") =>
        StatementListIs(Enabled("updatedAt") /\ CorrelatingName # Null
                        /\ CorrelatingName # Some(""))

(***************************************************************************)
(* Terminators and quoting.                                                *)
(***************************************************************************)
\* an identifier wrapped in double quotes
Q(ident) == "\"" \o ident \o "\""

\* column line i of a defineTable call, its identifier quoted; what follows
\* the name of a user column is taken from the line itself
QuotedLine(lines, i) ==
    IF Enabled("id") /\ i = 1
    THEN "  " \o Q(IdName) \o " INTEGER PRIMARY KEY AUTOINCREMENT"
    ELSE IF i <= NumId + NumUser
    THEN "  " \o Q(LineName(lines[i])) \o " "
         \o Text(SubSeq(lines[i], 4, Len(lines[i])))
    ELSE IF Enabled("createdAt") /\ i = NumId + NumUser + 1
    THEN "  " \o Q(CreatedName) \o " TEXT NOT NULL DEFAULT (datetime('now'))"
    ELSE "  " \o Q(UpdatedName) \o " TEXT NOT NULL DEFAULT (datetime('now'))"

QuotedCreateTable(stmt) ==
    LET lines == ColumnLines(stmt)
    IN  /\ {LineName(lines[i]) : i \in (NumId + 1)..(NumId + NumUser)}
              = {DeclaredNames[i] : i \in 1..NumUser}
        /\ Text(stmt) =
              "CREATE TABLE " \o Q(call.name) \o " (\n"
              \o JoinText([i \in 1..Len(lines) |-> QuotedLine(lines, i)], ",\n")
              \o "\n);"

QuotedTrigger(stmt) ==
    Text(stmt) =
        "CREATE TRIGGER " \o Q(call.name \o "_" \o UpdatedName \o "_trg")
        \o "\nAFTER UPDATE ON " \o Q(call.name)
        \o "\nFOR EACH ROW\nBEGIN\n  UPDATE " \o Q(call.name) \o " SET "
        \o Q(UpdatedName) \o " = datetime('now') WHERE " \o Q(WhereLeft(stmt))
        \o " = NEW." \o Q(WhereRight(stmt)) \o ";\nEND;"

\* C18: every statement defineTable, createIndex, dropIndex, addColumn and
\* dropTable return ends with a semicolon, and every identifier in it (table,
\* column, index and trigger names) is wrapped in double quotes.
C18_TerminatedAndQuoted ==
    /\ Returned("defineTable") =>
          /\ QuotedCreateTable(result.sql[1])
          /\ \A i \in 2..Len(result.sql) : QuotedTrigger(result.sql[i])
    /\ Returned("createIndex") =>
          Text(result) =
              "CREATE " \o (IF UniqueFlag THEN "UNIQUE " ELSE "") \o "INDEX "
              \o Q(Text(IndexNameOf(result))) \o " ON " \o Q(call.table._name)
              \o "("
              \o JoinText([i \in 1..Len(call.columns) |-> Q(call.columns[i])], ", ")
              \o ");"
    /\ Returned("dropIndex") =>
          Text(result) = "DROP INDEX " \o Q(call.name) \o ";"
    /\ Returned("addColumn") =>
          /\ result[Len(result)] = ";"
          /\ Text(result) =
                "ALTER TABLE " \o Q(call.table._name) \o " ADD COLUMN "
                \o Q(call.column) \o " " \o Text(SubSeq(result, 6, Len(result)))
    /\ Returned("dropTable") =>
          /\ Text(result[1]) = "DROP TABLE " \o Q(call.table._name) \o ";"
          /\ Text(result[2]) =
                "DROP TRIGGER IF EXISTS "
                \o Q(call.table._name \o "_"
                     \o NullishCoalesce(call.updatedAtColumn, "updatedAt")
                     \o "_trg")
                \o ";"

C18_Witness ==
    /\ Returned("dropIndex")
    /\ call.name = "Place_cityId_idx"
    /\ Text(result) = "DROP INDEX \"Place_cityId_idx\";"

(***************************************************************************)
(* Calls from independent call sites.                                      *)
(***************************************************************************)
\* what the call a site made returns when it is the only call made since the
\* module was loaded
Alone(c) ==
    IF c.op = "defineTable" THEN defineTable(c.name, c.fn, c.options)
    ELSE IF c.op = "createIndex" THEN createIndex(c.table, c.columns, c.options)
    ELSE IF c.op = "dropIndex" THEN dropIndex(c.name)
    ELSE IF c.op = "addColumn" THEN addColumn(c.table, c.column, c.fn)
    ELSE IF c.op = "dropTable" THEN dropTable(c.table, c.updatedAtColumn)
    ELSE NoCall

\* two calls are calls of the same operation with equal arguments
EqualInputs(c, d) ==
    /\ c.op = d.op
    /\ c.op = "defineTable" =>
          c.name = d.name /\ c.fn = d.fn /\ c.options = d.options
    /\ c.op = "createIndex" =>
          c.table = d.table /\ c.columns = d.columns /\ c.options = d.options
    /\ c.op = "dropIndex" => c.name = d.name
    /\ c.op = "addColumn" =>
          c.table = d.table /\ c.column = d.column /\ c.fn = d.fn
    /\ c.op = "dropTable" =>
          c.table = d.table /\ c.updatedAtColumn = d.updatedAtColumn

\* C19: however the calls of independent call sites interleave, each call
\* returns what it returns when run alone, two calls with equal inputs return
\* equal outputs, and the module-level default options are never modified.
C19_NoSharedState ==
    /\ defaults = defaultTableOptions
    /\ \A site \in Sites : result[site] = Alone(call[site])
    /\ \A a, b \in Sites :
         EqualInputs(call[a], call[b]) => result[a] = result[b]

\* site A declared a table without surrogate key, site B one with default
\* options: B's statements have the "id" line and the trigger on it
C19_Witness ==
    /\ call["A"] = [op |-> "defineTable", name |-> "Place", fn |-> <<>>,
                    options |-> [id |-> FALSE]]
    /\ call["B"] = [op |-> "defineTable", name |-> "Place", fn |-> <<>>,
                    options |-> EmptyObject]
    /\ Len(result["A"].sql) = 1
    /\ Len(result["B"].sql) = 2
    /\ Text(result["B"].sql[2]) = TriggerText("Place", "updatedAt", "id", "id")

(***************************************************************************)
(* A table without columns.                                                *)
(***************************************************************************)
\* C20: defineTable with no user column and the three auto columns disabled
\* returns exactly one statement, the CREATE TABLE with an empty column list,
\* CREATE TABLE "<name>" (\n\n); -- nothing rejects the call.
C20_EmptyColumnList ==
    ( /\ Returned("defineTable")
      /\ NumUser = 0
      /\ ~Enabled("id") /\ ~Enabled("createdAt") /\ ~Enabled("updatedAt") )
    => /\ result._name = call.name
       /\ Len(result.sql) = 1
       /\ ColumnLines(result.sql[1]) = <<>>
       /\ Text(result.sql[1]) = "CREATE TABLE \"" \o call.name \o "\" (\n\n);"

C20_Witness ==
    /\ Returned("defineTable")
    /\ call.name = "Place" /\ call.fn = <<>>
    /\ call.options = [id |-> FALSE, createdAt |-> FALSE, updatedAt |-> FALSE]
    /\ Len(result.sql) = 1
    /\ Text(result.sql[1]) = "CREATE TABLE \"Place\" (\n\n);"

(***************************************************************************)
(* Table references.                                                       *)
(***************************************************************************)
\* the statement(s) of the call made with the bare reference [_name |-> n]
\* in place of the table
WithBareReference ==
    LET bare == [_name |-> call.table._name]
    IN  IF call.op = "createIndex"
        THEN createIndex(bare, call.columns, call.options)
        ELSE IF call.op = "addColumn"
        THEN addColumn(bare, call.column, call.fn)
        ELSE dropTable(bare, call.updatedAtColumn)

\* C21: the tables returned by defineTable(n, ...), useTable(n) and
\* createUseTable()(n) all carry _name = n, and createIndex, addColumn and
\* dropTable return the same statements for a table of any of the three as
\* for the bare reference of that name.
C21_ReferenceByName ==
    /\ (pc = "returned" /\ call.op \in ReferenceOps) => result._name = call.name
    /\ pc = "used" => result = WithBareReference

\* a declaration without trigger is dropped like any reference of its name
C21_Witness ==
    /\ pc = "used"
    /\ call.op = "dropTable" /\ call.from = "defineTable"
    /\ "sql" \in DOMAIN call.table /\ Len(call.table.sql) = 1
    /\ call.table._name = "Place" /\ call.updatedAtColumn = Null
    /\ Text(result[2]) = "DROP TRIGGER IF EXISTS \"Place_updatedAt_trg\";"

(***************************************************************************)
(* Merging the options with the defaults.                                  *)
(***************************************************************************)
\* the options object without its property k
Without(options, k) == [x \in (DOMAIN options) \ {k} |-> options[x]]

\* the sequence without its element at position i
RemoveAt(seq, i) == SubSeq(seq, 1, i - 1) \o SubSeq(seq, i + 1, Len(seq))

\* the statements after the CREATE TABLE
AfterCreateTable(sql) == SubSeq(sql, 2, Len(sql))

\* the position of the created-timestamp line when it is enabled
CreatedAt == NumId + NumUser + 1

\* C22: the options are merged with the defaults field by field.  An omitted
\* option acts as its default (spelling out every default gives the same
\* statements); disabling createdAt only takes its line out, leaving the
\* other lines and the trigger as they are; renaming the created-timestamp
\* column only changes its line; renaming a disabled column changes nothing.
C22_OptionsFieldByField ==
    Returned("defineTable") =>
        /\ result = defineTable(call.name, call.fn,
                                Spread(defaultTableOptions, call.options))
        /\ (OptGiven("createdAt") /\ ~Enabled("createdAt")) =>
              LET other == defineTable(call.name, call.fn,
                                       Without(call.options, "createdAt"))
              IN  /\ ColumnLines(result.sql[1]) =
                        RemoveAt(ColumnLines(other.sql[1]), CreatedAt)
                  /\ AfterCreateTable(result.sql) = AfterCreateTable(other.sql)
        /\ (OptGiven("createdAtColumn") /\ Enabled("createdAt")) =>
              LET other == defineTable(call.name, call.fn,
                                       Without(call.options, "createdAtColumn"))
              IN  /\ RemoveAt(ColumnLines(result.sql[1]), CreatedAt) =
                        RemoveAt(ColumnLines(other.sql[1]), CreatedAt)
                  /\ AfterCreateTable(result.sql) = AfterCreateTable(other.sql)
        /\ \A k \in {"id", "createdAt", "updatedAt"} :
              (~Enabled(k) /\ OptGiven(k \o "Column")) =>
                  result = defineTable(call.name, call.fn,
                                       Without(call.options, k \o "Column"))

\* createdAt disabled, nothing else given: the id line, the user column, the
\* updatedAt line and the trigger on "id" are as with default options
C22_Witness ==
    /\ Returned("defineTable")
    /\ call.name = "Place" /\ call.options = [createdAt |-> FALSE]
    /\ DeclaredNames = <<"name">>
    /\ Text(result.sql[1]) =
         "CREATE TABLE \"Place\" (\n  \"id\" INTEGER PRIMARY KEY AUTOINCREMENT,\n"
         \o "  \"name\" TEXT NOT NULL,\n"
         \o "  \"updatedAt\" TEXT NOT NULL DEFAULT (datetime('now'))\n);"
    /\ Text(result.sql[2]) = TriggerText("Place", "updatedAt", "id", "id")

(***************************************************************************)
(* Sequential prefixes.                                                    *)
(***************************************************************************)
\* the name is <4 digits>_<anything>.ts or <4 digits>_<anything>.sql
IsNumbered(f) ==
    \E ext \in {<<".", "t", "s">>, <<".", "s", "q", "l">>} :
        \E rest \in 0..Len(f) :
            /\ Len(f) = 5 + rest + Len(ext)
            /\ \A i \in 1..4 : f[i] \in {"0", "1", "2", "3", "4", "5", "6", "7", "8", "9"}
            /\ f[5] = "_"
            /\ SubSeq(f, 6 + rest, Len(f)) = ext

\* the number a numbered name starts with
NumberOf(f) ==
    1000 * DigitValue[f[1]] + 100 * DigitValue[f[2]] + 10 * DigitValue[f[3]]
    + DigitValue[f[4]]

\* the highest number among the numbered names of the list, 0 without any
HighestNumber(fs) ==
    LET ns == {NumberOf(fs[i]) : i \in {j \in 1..Len(fs) : IsNumbered(fs[j])}}
    IN  IF ns = {} THEN 0 ELSE CHOOSE n \in ns : \A m \in ns : m <= n

\* the decimal digits of n, with zeros in front up to four characters
FourDigitsOf(n) ==
    IF n < 10 THEN <<"0", "0", "0">> \o String(n)
    ELSE IF n < 100 THEN <<"0", "0">> \o String(n)
    ELSE IF n < 1000 THEN <<"0">> \o String(n)
    ELSE String(n)

\* C23: generateSequentialPrefix returns the highest number among the file
\* names of the form <4 digits>_<anything>.ts or .sql, plus one, padded with
\* zeros to four digits; other names are ignored, gaps are not filled, and
\* without a numbered name the result is 0001.
C23_HighestPlusOne ==
    Returned("generateSequentialPrefix") =>
        /\ result = FourDigitsOf(HighestNumber(call.existingFiles) + 1)
        /\ (\A i \in 1..Len(call.existingFiles) :
                ~IsNumbered(call.existingFiles[i]))
              => Text(result) = "0001"

\* 0001 and 0005 exist: the gap is not filled
C23_Witness ==
    /\ Returned("generateSequentialPrefix")
    /\ Len(call.existingFiles) = 2
    /\ Text(call.existingFiles[1]) = "0001_first.ts"
    /\ Text(call.existingFiles[2]) = "0005_fifth.ts"
    /\ Text(result) = "0006"

\* C24: the prefix generateSequentialPrefix returns is a string of exactly
\* four decimal digits, for every list of file names.
C24_FourDigits ==
    Returned("generateSequentialPrefix") =>
        /\ Len(result) = 4
        /\ \A i \in 1..Len(result) : IsDigit(result[i])

(***************************************************************************)
(* The executor.                                                           *)
(***************************************************************************)
\* the calls prepare(sql), bind(parameters...) of the queries, in their order
RECURSIVE ExpectedPrepares(_)
ExpectedPrepares(queries) ==
    IF Len(queries) = 0 THEN <<>>
    ELSE << [method |-> "prepare", args |-> <<queries[1].sql>>],
            [method |-> "bind", args |-> queries[1].parameters] >>
         \o ExpectedPrepares(Tail(queries))

\* C25: queryBatch prepares one statement per query in the order of the
\* list, binds each query's parameters in order, passes all the statements
\* to one batch call, and returns one {success, meta} result per query, in
\* the order of the database's results.
C25_BatchInOrder ==
    (call.op = "queryBatch" /\ pc \in {"awaiting", "rejected", "returned"}) =>
        LET n == Len(call.queries)
            batch == d1.calls[Len(d1.calls)]
        IN  /\ Len(d1.calls) = 2 * n + 1
            /\ SubSeq(d1.calls, 1, 2 * n) = ExpectedPrepares(call.queries)
            /\ batch.method = "batch"
            /\ Len(batch.args) = 1 /\ Len(batch.args[1]) = n
            /\ \A i \in 1..n :
                  /\ batch.args[1][i].sql = call.queries[i].sql
                  /\ batch.args[1][i].bound = Some(call.queries[i].parameters)
            /\ pc = "returned" =>
                  /\ Len(result) = n
                  /\ \A i \in 1..n :
                        /\ DOMAIN result[i] = {"success", "meta"}
                        /\ result[i].success = d1.settled[1][i].success
                        /\ result[i].meta = d1.settled[1][i].meta

\* two queries, the second result a failure: it comes second
C25_Witness ==
    /\ pc = "returned" /\ call.op = "queryBatch"
    /\ Len(call.queries) = 2
    /\ call.queries[1].parameters = <<"1">>
    /\ call.queries[2].parameters = <<"2", "B">>
    /\ d1.calls[4] = [method |-> "bind", args |-> <<"2", "B">>]
    /\ result = << [success |-> TRUE, meta |-> "meta1"],
                   [success |-> FALSE, meta |-> "meta2"] >>

\* C26: queryAll calls prepare with the SQL text, then bind with the
\* parameters in order (no arguments when there are none), then all, and
\* returns the rows of the result, the empty list when the result has no
\* results field.
C26_QueryAllRows ==
    (call.op = "queryAll" /\ pc \in {"awaiting", "rejected", "returned"}) =>
        /\ d1.calls = << [method |-> "prepare", args |-> <<call.query.sql>>],
                         [method |-> "bind", args |-> call.query.parameters],
                         [method |-> "all", args |-> <<>>] >>
        /\ pc = "returned" =>
              IF "results" \in DOMAIN d1.settled[1]
              THEN result = d1.settled[1].results
              ELSE result = <<>>

\* the database resolved without a results field
C26_Witness ==
    /\ pc = "returned" /\ call.op = "queryAll"
    /\ call.query.parameters = <<>>
    /\ d1.calls[2] = [method |-> "bind", args |-> <<>>]
    /\ d1.settled = Some([success |-> TRUE, meta |-> "meta2"])
    /\ result = <<>>

(***************************************************************************)
(* One rendering rule, and one line per column.                            *)
(***************************************************************************)
\* the declaration of the user column named n in the callback of the call
DeclOf(n) == call.fn[DeclaredAt(n)]

\* C27: defineTable and addColumn render a column by the same rule: the line
\* of a user column in CREATE TABLE, without its two-space indent, is the
\* text that follows ADD COLUMN in the statement addColumn returns for the
\* same column name and descriptor, without its final semicolon.
C27_SameRendering ==
    Returned("defineTable") =>
        LET lines == ColumnLines(result.sql[1])
        IN  \A i \in (NumId + 1)..(NumId + NumUser) :
                LET d == DeclOf(LineName(lines[i]))
                    stmt == addColumn(useTable(call.name), d.name,
                                      [factory |-> d.factory, chain |-> d.chain])
                IN  /\ lines[i][1] = "  \""
                    /\ stmt[3] = "\" ADD COLUMN \""
                    /\ stmt[Len(stmt)] = ";"
                    /\ Text(SubSeq(lines[i], 2, Len(lines[i])))
                         = Text(SubSeq(stmt, 4, Len(stmt) - 1))

\* a column that is not null and has a default
C27_Witness ==
    /\ Returned("defineTable")
    /\ DeclaredNames = <<"status">>
    /\ Enabled("id")
    /\ Text(ColumnLines(result.sql[1])[2]) = "  \"status\" TEXT NOT NULL DEFAULT 'draft'"
    /\ Text(addColumn(useTable("Place"), "status", [factory |-> "text", chain |-> DeclOf("status").chain]))
         = "ALTER TABLE \"Place\" ADD COLUMN \"status\" TEXT NOT NULL DEFAULT 'draft';"

\* C28: the CREATE TABLE statement has one column line per user column and
\* one per enabled auto column; a user column with the name of an enabled
\* auto column has its own line beside the auto column's.
C28_LineCount ==
    Returned("defineTable") =>
        LET lines == ColumnLines(result.sql[1])
            autoNames == (IF Enabled("id") THEN {IdName} ELSE {})
                         \cup (IF Enabled("createdAt") THEN {CreatedName} ELSE {})
                         \cup (IF Enabled("updatedAt") THEN {UpdatedName} ELSE {})
        IN  /\ Len(lines) = NumUser + NumId + NumCreated + NumUpdated
            /\ \A i \in 1..NumUser :
                  DeclaredNames[i] \in autoNames =>
                      Cardinality({j \in 1..Len(lines) :
                                     LineName(lines[j]) = DeclaredNames[i]}) >= 2

\* a user column named '' beside a surrogate key named ''
C28_Witness ==
    /\ Returned("defineTable")
    /\ DeclaredNames = <<"">>
    /\ Enabled("id") /\ IdName = ""
    /\ ~Enabled("createdAt") /\ ~Enabled("updatedAt")
    /\ Text(result.sql[1]) =
         "CREATE TABLE \"Place\" (\n  \"\" INTEGER PRIMARY KEY AUTOINCREMENT,\n  \"\" TEXT\n);"
(***************************************************************************)
(* migrate:create and migrate:build.                                       *)
(***************************************************************************)
\* C29: the file a migrate:create writes never has the name of a file that
\* already exists in d1-kyt/migrations, under either naming strategy: no
\* existing migration file is overwritten.
C29_CreateNeverOverwrites ==
    files.last = "create" =>
        \A i \in 1..Len(files.written) : ~files.written[i].existed

\* a file name of 3 to 14 digits, an underscore, anything, and ".ts" at the end
IsMigrationSource(f) ==
    \E n \in 3..14 :
        /\ Len(f) >= n + 4
        /\ \A i \in 1..n : f[i] \in DOMAIN DigitValue
        /\ f[n + 1] = "_"
        /\ SubSeq(f, Len(f) - 2, Len(f)) = <<".", "t", "s">>

\* the .sql file of a source file: the same name with sql for ts
SqlNameOf(f) == SubSeq(f, 1, Len(f) - 2) \o <<"s", "q", "l">>

\* a run of migrate:build from one state to the next
C30_BuildRun ==
    (files'.last = "build" /\ files'.commands = files.commands + 1) =>
        LET w == files'.written
        IN  /\ \A i \in 1..Len(w) :
                  /\ w[i].dir = "out"
                  /\ w[i].file \notin files.out
                  /\ ~w[i].existed
                  /\ w[i].from \in files.src
                  /\ IsMigrationSource(w[i].from)
                  /\ w[i].file = SqlNameOf(w[i].from)
                  /\ files.content[w[i].from] = "statements"
            /\ \A i, j \in 1..Len(w) :
                  i < j => StringLess(w[i].from, w[j].from)
            /\ files'.out = files.out \cup {w[i].file : i \in 1..Len(w)}
            /\ files'.src = files.src
            /\ files'.content = files.content
            /\ (files.last = "build" => w = <<>>)

\* C30: migrate:build never overwrites an existing .sql file and is
\* idempotent: it writes, in ascending order of the source file names, a .sql
\* file only for a matching .ts migration whose .sql does not exist yet and
\* whose statement list is not empty, leaves every other file as it was, and
\* a run that directly follows a run (nothing changed in between) writes no
\* file.
C30_BuildWritesOnlyNew == [][C30_BuildRun]_vars

\* a second run in a row has written nothing, and the output directory holds
\* the .sql of a migration that no initial output directory had: the first
\* run wrote it
C30_Witness ==
    /\ files.last = "build"
    /\ files.prev = "build"
    /\ files.written = <<>>
    /\ \E f \in files.src :
          /\ IsMigrationSource(f)
          /\ files.content[f] = "statements"
          /\ SqlNameOf(f) \in files.out
          /\ \A initial \in InitialFiles : SqlNameOf(f) \notin initial.out

====
